---- MODULE Spec2Model ----
(***************************************************************************)
(* kynai: a chat client.  These parts of the program are modelled:         *)
(*   - App (src/unnamed/part_000): the React state of the application and  *)
(*     the handlers that change it (handleSendMessage with its chunk       *)
(*     callback, completion and failure paths, handleNewChat,              *)
(*     handleSelectSession, handleDeleteAll, the session-sync effect) and  *)
(*     InputArea.handleSubmit, the boundary that calls the send handler;   *)
(*   - the <think> parsing of ChatMessage (src/components/ChatMessage.tsx);*)
(*   - the typewriter effect of ChatMessage (the reveal pacer);            *)
(*   - one call of streamChatResponse (src/services/gemini.ts);            *)
(*   - the mount of App with what localStorage holds, and the persist      *)
(*     effect;                                                             *)
(*   - the file selections of InputArea (handleFileSelect).                *)
(* Text is a sequence of one-character strings, so that slicing, trimming, *)
(* searching and replacing are computed as the code computes them.         *)
(* A React handler is one action: the state updates it queues, the render  *)
(* that follows and the effects that render schedules happen in that step. *)
(***************************************************************************)
EXTENDS Integers, Sequences, FiniteSets, TLC

VARIABLES
    \* ---- App (src/unnamed/part_000)
    messages,          \* useState<Message[]>: the displayed message list
    sessions,          \* useState<ChatSession[]>
    currentSessionId,  \* useState<string | null>
    isLoading,         \* useState(false)
    streams,           \* the provider calls made so far, one record per call
    nextId,            \* the next session id uuidv4() returns
    lastSubmit,        \* "disabled" after a handleSubmit that disabled stopped
    steps,             \* number of handler invocations so far
    stored,            \* the localStorage item 'kynai_sessions'
    boot,              \* the mount of App: its phase, the reads of the item
    \* ---- one ChatMessage view (src/components/ChatMessage.tsx)
    message,           \* the message prop of the view
    parsed,            \* what the last render derived from message.text
    displayedText,     \* useState of the typewriter effect
    interval,          \* the setInterval handle of the effect and its closure
    delivered,         \* number of chunks appended to the prop so far
    lastOp,            \* the last step taken by the view
    prevLen,           \* length of displayedText before the last step
    \* ---- one call of streamChatResponse (src/services/gemini.ts)
    call,              \* the call: its arguments, request, progress and result
    twin,              \* the same call made with the other value of useSearch
    \* ---- InputArea (src/components/InputArea.tsx)
    inputArea          \* its attachments state and the file selections in progress

appVars == <<messages, sessions, currentSessionId, isLoading, streams, nextId, lastSubmit, steps,
             stored, boot>>
viewVars == <<message, parsed, displayedText, interval, delivered, lastOp, prevLen>>
driverVars == <<call, twin>>
inputVars == <<inputArea>>
vars == <<messages, sessions, currentSessionId, isLoading, streams, nextId, lastSubmit, steps,
          stored, boot,
          message, parsed, displayedText, interval, delivered, lastOp, prevLen,
          call, twin, inputArea>>

----------------------------------------------------------------------------
(* Text *)

OPEN == <<"<","t","h","i","n","k",">">>
CLOSE == <<"<","/","t","h","i","n","k",">">>
APOLOGY == <<"S","o","r","r","y",","," ","s","o","m","e","t","h","i","n","g"," ","w","e","n","t"," ","w","r","o","n","g","."," ","P","l","e","a","s","e"," ","t","r","y"," ","a","g","a","i","n",".">>
NEW_CHAT == <<"N","e","w"," ","C","h","a","t">>

\* The characters String.prototype.trim treats as white space, as far as the
\* model's texts contain them.
WhiteSpace == {" ", "\n"}

Min(a, b) == IF a <= b THEN a ELSE b
Max(a, b) == IF a >= b THEN a ELSE b

\* s.slice(0, n)
SliceTo(s, n) == SubSeq(s, 1, Min(Max(n, 0), Len(s)))

\* pat occurs in s at position i (1-based)
IsAt(s, pat, i) ==
    /\ i >= 1
    /\ i + Len(pat) - 1 <= Len(s)
    /\ \A k \in 1..Len(pat) : s[i + k - 1] = pat[k]

\* s.startsWith(pat)
StartsWith(s, pat) == IsAt(s, pat, 1)

\* s.indexOf(pat, from) as a 1-based position, 0 when there is none
RECURSIVE IndexFrom(_, _, _)
IndexFrom(s, pat, from) ==
    IF from + Len(pat) - 1 > Len(s) THEN 0
    ELSE IF IsAt(s, pat, from) THEN from
    ELSE IndexFrom(s, pat, from + 1)

\* position of the first character of s at or after i that is not white space
RECURSIVE SkipSpace(_, _)
SkipSpace(s, i) ==
    IF i > Len(s) \/ s[i] \notin WhiteSpace THEN i ELSE SkipSpace(s, i + 1)

\* position of the last character of s at or before i that is not white space
RECURSIVE SkipSpaceBack(_, _)
SkipSpaceBack(s, i) ==
    IF i < 1 \/ s[i] \notin WhiteSpace THEN i ELSE SkipSpaceBack(s, i - 1)

\* s.trimStart()
TrimStart(s) == SubSeq(s, SkipSpace(s, 1), Len(s))

\* s.trim()
Trim(s) == SubSeq(s, SkipSpace(s, 1), SkipSpaceBack(s, Len(s)))

\* s.replace(pat, "") with a string pattern: the first occurrence is removed
RemoveFirst(s, pat) ==
    LET i == IndexFrom(s, pat, 1)
    IN IF i = 0 THEN s
       ELSE SubSeq(s, 1, i - 1) \o SubSeq(s, i + Len(pat), Len(s))

IsPrefix(p, s) == Len(p) <= Len(s) /\ \A k \in 1..Len(p) : s[k] = p[k]

\* t occurs somewhere in s
Contains(s, t) == IndexFrom(s, t, 1) # 0

RECURSIVE Flatten(_)
Flatten(ss) == IF ss = <<>> THEN <<>> ELSE Head(ss) \o Flatten(Tail(ss))

----------------------------------------------------------------------------
(* ChatMessage: parsing of the <think> block *)

USER == "user"
MODEL == "model"

\* the match taken at the last open marker that has a close marker after it
thinkRegexLast(rawText) ==
    LET starts == {i \in 1..Len(rawText) :
                     /\ IsAt(rawText, OPEN, i)
                     /\ IndexFrom(rawText, CLOSE, i + Len(OPEN)) # 0}
    IN IF starts = {} THEN [start |-> 0, close |-> 0]
       ELSE LET i == CHOOSE x \in starts : \A y \in starts : x >= y
            IN [start |-> i, close |-> IndexFrom(rawText, CLOSE, i + Len(OPEN))]

\* rawText.match(/<think>([\s\S]*?)<\/think>/): the leftmost position where the
\* pattern can match, and for it the nearest close marker (the group is lazy).
\* [start, close] are the positions of the two markers, start = 0 for no match.
RECURSIVE thinkRegexFrom(_, _)
thinkRegexFrom(rawText, from) ==
    LET i == IndexFrom(rawText, OPEN, from)
        j == IndexFrom(rawText, CLOSE, i + Len(OPEN))
    IN IF i = 0 THEN [start |-> 0, close |-> 0]
       ELSE IF j # 0 THEN [start |-> i, close |-> j]
       ELSE thinkRegexFrom(rawText, i + 1)

thinkRegex(rawText) == thinkRegexFrom(rawText, 1)

\* Case 3 without its last test: any short buffer that starts with "<"
IsMarkerPrefixAnyTag(cleanText, isStreaming) ==
    /\ isStreaming
    /\ Len(cleanText) < 10
    /\ StartsWith(cleanText, <<"<">>)

\* Case 3 with the two operands of the last startsWith exchanged
IsMarkerPrefixSwapped(cleanText, isStreaming) ==
    /\ isStreaming
    /\ Len(cleanText) < 10
    /\ StartsWith(cleanText, <<"<">>)
    /\ IsPrefix(OPEN, cleanText)

\* isStreaming && cleanText.length < 10 && cleanText.startsWith("<")
\*   && "<think>".startsWith(cleanText)
IsMarkerPrefix(cleanText, isStreaming) ==
    /\ isStreaming
    /\ Len(cleanText) < 10
    /\ StartsWith(cleanText, <<"<">>)
    /\ IsPrefix(cleanText, OPEN)

\* The three values the render derives from message.text:
\* thoughtContent, finalContent, isThinkingProcess.
Classify(msg) ==
    LET rawText == msg.text
        cleanText == TrimStart(rawText)
        match == thinkRegex(rawText)
        match0 == SubSeq(rawText, match.start, match.close + Len(CLOSE) - 1)
        match1 == SubSeq(rawText, match.start + Len(OPEN), match.close - 1)
    IN IF msg.role = USER
       THEN [thoughtContent |-> <<>>, finalContent |-> rawText,
             isThinkingProcess |-> FALSE]
       ELSE IF match.start # 0
       THEN [thoughtContent |-> match1,
             finalContent |-> Trim(RemoveFirst(rawText, match0)),
             isThinkingProcess |-> FALSE]
       ELSE IF StartsWith(cleanText, OPEN)
       THEN [thoughtContent |-> RemoveFirst(cleanText, OPEN),
             finalContent |-> <<>>, isThinkingProcess |-> TRUE]
       ELSE IF IsMarkerPrefix(cleanText, msg.isStreaming = TRUE)
       THEN [thoughtContent |-> <<>>, finalContent |-> <<>>,
             isThinkingProcess |-> TRUE]
       ELSE [thoughtContent |-> <<>>, finalContent |-> rawText,
             isThinkingProcess |-> FALSE]

finalContent == parsed.finalContent
thoughtContent == parsed.thoughtContent
isThinkingProcess == parsed.isThinkingProcess

\* the spinner condition without the test of isStreaming
showThinkingSpinnerNoStream ==
    /\ message.role # USER
    /\ (Len(message.text) = 0 \/ (isThinkingProcess /\ Len(thoughtContent) = 0))

\* !isUser && isStreaming
\*   && (rawText.length === 0 || (isThinkingProcess && thoughtContent.length === 0))
showThinkingSpinner ==
    /\ message.role # USER
    /\ message.isStreaming = TRUE
    /\ (Len(message.text) = 0 \/ (isThinkingProcess /\ Len(thoughtContent) = 0))

----------------------------------------------------------------------------
(* Bounds of the model *)

MaxParserChunks == 3   \* chunks appended to a buffer in ParserSpec

NULL == 0              \* currentSessionId null: no session is selected

NoInterval == [active |-> FALSE, finalContent |-> <<>>]

\* No call of streamChatResponse is examined
NoCall == [status |-> "none"]
DriverIdle == call = NoCall /\ twin = NoCall

\* JSON.stringify(sessions): the item holds the text of a JSON array, from
\* which JSON.parse gives back the list (a field that is undefined is left
\* out of the text and is undefined again after the parse)
Stringify(list) == [kind |-> "array", list |-> list]

\* App is mounted: its effects have run, the item was read once (there was
\* none) and what the sessions state holds is a list
Mounted == [phase |-> "mounted", reads |-> 1, item |-> "absent", held |-> "array"]

\* InputArea with no attachment and no file selection in progress
InputIdle ==
    inputArea = [attachments |-> <<>>, batches |-> <<>>, alerts |-> 0,
                 nextId |-> 1, steps |-> 0]

\* The App's variables, at rest while a single view is examined
AppIdle ==
    /\ stored = Stringify(<<>>)
    /\ boot = Mounted
    /\ messages = <<>>
    /\ sessions = <<>>
    /\ currentSessionId = NULL
    /\ isLoading = FALSE
    /\ streams = <<>>
    /\ nextId = 1
    /\ lastSubmit = "none"
    /\ steps = 0

----------------------------------------------------------------------------
(* ParserSpec: the parsing of ChatMessage applied to a buffer that grows by  *)
(* chunks, as the chunk callback of handleSendMessage makes message.text     *)
(* grow.  The typewriter state is left out of this specification.            *)

EXAMPLE == <<"<","t","h","i","n","k",">","h","e","l","l","o","<","/","t","h","i","n","k",">","w","o","r","l","d">>

\* The fragments a chunk may be: markers, parts of markers, text, white space
ParserChunks ==
    { <<" ">>, OPEN, CLOSE, <<"a">>, <<"<","t","h","i">>, <<"n","k",">","b">>,
      <<"<","/","t","h">>, <<"i","n","k",">">> }

ParserSeeds == { <<>>, EXAMPLE }

ParserInit ==
    /\ AppIdle
    /\ DriverIdle
    /\ InputIdle
    /\ \E role \in {USER, MODEL}, text \in ParserSeeds, s \in BOOLEAN :
          /\ role = USER => (text = EXAMPLE /\ s = FALSE)
          /\ message = [id |-> 1, role |-> role, text |-> text, isStreaming |-> s]
    /\ parsed = Classify(message)
    /\ displayedText = <<>>
    /\ interval = NoInterval
    /\ delivered = 0
    /\ lastOp = "mount"
    /\ prevLen = 0

\* setMessages(prev => prev.map(msg => msg.id === botMsgId
\*    ? {...msg, text: msg.text + chunk} : msg)) as the view sees it
ParserAppend(chunk) ==
    /\ message.role = MODEL
    /\ message.isStreaming
    /\ delivered < MaxParserChunks
    /\ message' = [message EXCEPT !.text = @ \o chunk]
    /\ parsed' = Classify(message')
    /\ delivered' = delivered + 1
    /\ lastOp' = "chunk"
    /\ UNCHANGED <<displayedText, interval, prevLen>>
    /\ UNCHANGED <<appVars, driverVars, inputVars>>

\* {...msg, isStreaming: false}
ParserEnd ==
    /\ message.role = MODEL
    /\ message.isStreaming
    /\ message' = [message EXCEPT !.isStreaming = FALSE]
    /\ parsed' = Classify(message')
    /\ lastOp' = "complete"
    /\ UNCHANGED <<displayedText, interval, delivered, prevLen>>
    /\ UNCHANGED <<appVars, driverVars, inputVars>>

ParserNext ==
    \/ \E chunk \in ParserChunks : ParserAppend(chunk)
    \/ ParserEnd

ParserSpec == ParserInit /\ [][ParserNext]_vars

----------------------------------------------------------------------------
(* ChatMessage: the typewriter effect (reveal pacer) *)

MaxViewChunks == 3     \* chunks appended to the message of the view in ViewSpec

\* One run of the effect with a timer that is set whenever there is an answer
EffectBodyPolling(fc, dt) ==
    LET d1 == IF fc = <<>> THEN <<>> ELSE dt
        d2 == IF fc # <<>> /\ dt = <<>> THEN SliceTo(fc, 5) ELSE d1
        d3 == IF Len(dt) < Len(fc) THEN d2
              ELSE IF Len(fc) < Len(dt) THEN fc ELSE d2
    IN [displayedText |-> d3,
        interval |-> IF fc # <<>>
                     THEN [active |-> TRUE, finalContent |-> fc]
                     ELSE NoInterval]

\* One run of the effect without its last branch (a text that became shorter)
EffectBodyNoShrink(fc, dt) ==
    LET d1 == IF fc = <<>> THEN <<>> ELSE dt
        d2 == IF fc # <<>> /\ dt = <<>> THEN SliceTo(fc, 5) ELSE d1
    IN [displayedText |-> d2,
        interval |-> IF Len(dt) < Len(fc)
                     THEN [active |-> TRUE, finalContent |-> fc]
                     ELSE NoInterval]

\* One run of the effect of the typewriter for a model message, with
\* finalContent = fc and displayedText = dt in its closure.  The setDisplayedText
\* calls of one run are batched, the last one wins; hasStartedRef.current is
\* isUser, false here, and is never assigned.
\*   if (!finalContent && !hasStartedRef.current) setDisplayedText('')
\*   if (finalContent && displayedText === '') setDisplayedText(finalContent.slice(0, 5))
\*   if (displayedText.length < finalContent.length) intervalId = setInterval(...)
\*   else if (finalContent.length < displayedText.length) setDisplayedText(finalContent)
EffectBody(fc, dt) ==
    LET d1 == IF fc = <<>> THEN <<>> ELSE dt
        d2 == IF fc # <<>> /\ dt = <<>> THEN SliceTo(fc, 5) ELSE d1
        d3 == IF Len(dt) < Len(fc) THEN d2
              ELSE IF Len(fc) < Len(dt) THEN fc ELSE d2
    IN [displayedText |-> d3,
        interval |-> IF Len(dt) < Len(fc)
                     THEN [active |-> TRUE, finalContent |-> fc]
                     ELSE NoInterval]

\* The effect runs again (after its cleanup, clearInterval) while a run changes
\* displayedText.length, one of its dependencies.
RECURSIVE Effects(_, _)
Effects(fc, dt) ==
    LET r == EffectBody(fc, dt)
    IN IF Len(r.displayedText) # Len(dt) THEN Effects(fc, r.displayedText) ELSE r

\* chunk size of a tick without Math.max(1, ...) and with a jitter of 0 or 1
ChunkSizeNoFloor(diff, jitter) == (diff \div 20) + (jitter - 1)

\* Math.max(1, Math.floor(diff / 20)) + (Math.random() > 0.5 ? 2 : 1)
ChunkSize(diff, jitter) == Max(1, diff \div 20) + jitter

\* The updater of a tick: current => current.length < finalContent.length
\*   ? finalContent.slice(0, current.length + chunkSize) : current
TickText(current, fc, jitter) ==
    IF Len(current) < Len(fc)
    THEN SliceTo(fc, Len(current) + ChunkSize(Len(fc) - Len(current), jitter))
    ELSE current

\* A render of the view with a new message prop: the parsing, and the effect
\* when finalContent, a dependency, changed.
Rerender(newMessage) ==
    \E p \in {Classify(newMessage)} :
        /\ parsed' = p
        /\ IF newMessage.role = USER
           THEN displayedText' = p.finalContent /\ interval' = NoInterval
           ELSE IF p.finalContent = finalContent
           THEN UNCHANGED <<displayedText, interval>>
           ELSE \E r \in {Effects(p.finalContent, displayedText)} :
                   displayedText' = r.displayedText /\ interval' = r.interval

\* The messages a view is mounted with: the placeholder of a send, a model
\* message that already has text (a session is opened), a user message
ViewSeeds ==
    { [id |-> 1, role |-> MODEL, text |-> <<>>, isStreaming |-> TRUE],
      [id |-> 1, role |-> MODEL, text |-> <<"a","b","c","d","e","f","g">>,
       isStreaming |-> FALSE],
      [id |-> 1, role |-> USER, text |-> <<"a","b","c","d","e","f","g">>,
       isStreaming |-> FALSE] }

\* The chunks of ViewSpec
ViewChunks ==
    { <<"a","b">>, OPEN, CLOSE, CLOSE \o <<"c","d","e">> }

\* Mount: useState(isUser ? finalContent : ''), then the effect
ViewInit ==
    /\ AppIdle
    /\ DriverIdle
    /\ InputIdle
    /\ message \in ViewSeeds
    /\ parsed = Classify(message)
    /\ LET r == Effects(parsed.finalContent, <<>>)
       IN IF message.role = USER
          THEN displayedText = parsed.finalContent /\ interval = NoInterval
          ELSE displayedText = r.displayedText /\ interval = r.interval
    /\ delivered = 0
    /\ lastOp = "mount"
    /\ prevLen = 0

\* the chunk callback of handleSendMessage, seen from the view of the message
ViewChunk(chunk) ==
    /\ message.role = MODEL
    /\ message.isStreaming
    /\ delivered < MaxViewChunks
    /\ message' = [message EXCEPT !.text = @ \o chunk]
    /\ Rerender(message')
    /\ delivered' = delivered + 1
    /\ lastOp' = "chunk"
    /\ prevLen' = Len(displayedText)
    /\ UNCHANGED <<appVars, driverVars, inputVars>>

\* the stream completed: {...msg, isStreaming: false}
ViewComplete ==
    /\ message.role = MODEL
    /\ message.isStreaming
    /\ message' = [message EXCEPT !.isStreaming = FALSE]
    /\ Rerender(message')
    /\ lastOp' = "complete"
    /\ prevLen' = Len(displayedText)
    /\ UNCHANGED delivered
    /\ UNCHANGED <<appVars, driverVars, inputVars>>

\* the stream failed: {...msg, text: "Sorry, ...", isStreaming: false}
ViewFail ==
    /\ message.role = MODEL
    /\ message.isStreaming
    /\ message' = [message EXCEPT !.text = APOLOGY, !.isStreaming = FALSE]
    /\ Rerender(message')
    /\ lastOp' = "fail"
    /\ prevLen' = Len(displayedText)
    /\ UNCHANGED delivered
    /\ UNCHANGED <<appVars, driverVars, inputVars>>

\* one tick of the interval (every 10 ms while it is set), then the render and
\* the effect that the new displayedText.length causes
Tick ==
    /\ interval.active
    /\ \E jitter \in {1, 2} :
          LET new == TickText(displayedText, interval.finalContent, jitter)
              r == Effects(finalContent, new)
          IN IF Len(new) # Len(displayedText)
             THEN displayedText' = r.displayedText /\ interval' = r.interval
             ELSE displayedText' = new /\ UNCHANGED interval
    /\ lastOp' = "tick"
    /\ prevLen' = Len(displayedText)
    /\ UNCHANGED <<message, parsed, delivered>>
    /\ UNCHANGED <<appVars, driverVars, inputVars>>

ViewNext ==
    \/ \E chunk \in ViewChunks : ViewChunk(chunk)
    \/ ViewComplete
    \/ ViewFail
    \/ Tick

ViewSpec == ViewInit /\ [][ViewNext]_vars

\* The interval fires as long as it is set: the timer of the browser is fair.
FairViewSpec == ViewSpec /\ WF_vars(Tick)

\* The view is in the tree: its message is in the displayed list
ViewMounted == lastOp # "unmount"

\* an unmount whose cleanup does not clear the interval
UnmountNoCleanup ==
    /\ ViewMounted
    /\ lastOp' = "unmount"
    /\ prevLen' = Len(displayedText)
    /\ UNCHANGED <<message, parsed, displayedText, interval, delivered>>
    /\ UNCHANGED <<appVars, driverVars, inputVars>>

\* The message leaves the displayed list (handleSelectSession, handleNewChat,
\* handleDeleteAll): the list is rendered with key={msg.id}, so React unmounts
\* the view and runs the cleanup of its effect, clearInterval(intervalId).
\* displayedText keeps what the view showed last.
Unmount ==
    /\ ViewMounted
    /\ interval' = NoInterval
    /\ lastOp' = "unmount"
    /\ prevLen' = Len(displayedText)
    /\ UNCHANGED <<message, parsed, displayedText, delivered>>
    /\ UNCHANGED <<appVars, driverVars, inputVars>>

\* The view from its mount to its unmount; the interval, a timer of the
\* browser, fires whenever it is set, whether the view is mounted or not
ViewLifeNext ==
    \/ ViewMounted /\ \E chunk \in ViewChunks : ViewChunk(chunk)
    \/ ViewMounted /\ ViewComplete
    \/ ViewMounted /\ ViewFail
    \/ Tick
    \/ Unmount

ViewLifeSpec == ViewInit /\ [][ViewLifeNext]_vars

----------------------------------------------------------------------------
(* App: the state of the application and its handlers *)

MaxSteps == 7          \* handler invocations (user actions, provider events) in a run

NoMeta == "none"       \* groundingMetadata undefined

\* The view of a message, at rest while the App is examined
ViewIdle ==
    /\ message = [id |-> 0, role |-> USER, text |-> <<>>, isStreaming |-> FALSE]
    /\ parsed = [thoughtContent |-> <<>>, finalContent |-> <<>>,
                 isThinkingProcess |-> FALSE]
    /\ displayedText = <<>>
    /\ interval = NoInterval
    /\ delivered = 0
    /\ lastOp = "none"
    /\ prevLen = 0

\* A text of more than 30 characters
QUESTION == <<"W","h","a","t"," ","i","s"," ","t","h","e"," ","c","a","p","i","t","a","l"," ","o","f"," ","F","r","a","n","c","e"," ","?">>

\* What the user may have typed and attached at a submit
Inputs ==
    { [text |-> QUESTION, attachments |-> <<>>],
      [text |-> <<>>, attachments |-> <<"file">>],
      [text |-> <<" ">>, attachments |-> <<>>],
      [text |-> <<>>, attachments |-> <<>>] }

\* What a provider may deliver in one chunk: text and grounding metadata
AppChunks ==
    { [text |-> <<"a">>, metadata |-> NoMeta],
      [text |-> <<"b","c">>, metadata |-> "A"],
      [text |-> <<>>, metadata |-> "B"] }

\* text.slice(0, 30) || 'New Chat'
TitleOf(text) == IF SliceTo(text, 30) = <<>> THEN NEW_CHAT ELSE SliceTo(text, 30)

\* the sync effect deriving the title from the last message at every run
SyncSessionsRetitle(prev, cur, msgs) ==
    IF cur # NULL /\ Len(msgs) > 0
    THEN LET sync(session) ==
                 IF session.id = cur
                 THEN [session EXCEPT !.messages = msgs,
                                      !.title = TitleOf(msgs[Len(msgs)].text)]
                 ELSE session
         IN [k \in DOMAIN prev |-> sync(prev[k])]
    ELSE prev

\* The session-sync effect, which runs after a render in which messages or
\* currentSessionId changed:
\*   if (currentSessionId && messages.length > 0)
\*     setSessions(prev => prev.map(session => session.id === currentSessionId
\*       ? {...session, messages, title: session.title === 'New Chat'
\*            ? (messages[0]?.text.slice(0, 30) || 'New Chat') : session.title}
\*       : session))
SyncSessions(prev, cur, msgs) ==
    IF cur # NULL /\ Len(msgs) > 0
    THEN LET sync(session) ==
                 IF session.id = cur
                 THEN [session EXCEPT
                         !.messages = msgs,
                         !.title = IF @ = NEW_CHAT THEN TitleOf(msgs[1].text) ELSE @]
                 ELSE session
         IN [k \in DOMAIN prev |-> sync(prev[k])]
    ELSE prev

\* Nothing is left of the history: no session, no current session, no message
\* displayed.  The record of a call notes in late that one of its events (a
\* chunk, its return, its throw) ran in such a state.
Emptied == sessions = <<>> /\ messages = <<>> /\ currentSessionId = NULL

\* the guard of handleSubmit without the test of disabled
CanSubmitAlways(text, attachments) ==
    Trim(text) # <<>> \/ Len(attachments) > 0

\* InputArea.handleSubmit: (input.trim() || attachments.length > 0) && !disabled,
\* where disabled is the isLoading of the App
CanSubmit(text, attachments) ==
    (Trim(text) # <<>> \/ Len(attachments) > 0) /\ ~isLoading

\* the chunk callback with groundingMetadata: metadata
ApplyChunkOverwrite(msg, chunk) ==
    [msg EXCEPT !.text = @ \o chunk.text,
                !.groundingMetadata = chunk.metadata]

\* the chunk callback: {...msg, text: msg.text + chunk,
\*                      groundingMetadata: metadata || msg.groundingMetadata}
ApplyChunk(msg, chunk) ==
    [msg EXCEPT !.text = @ \o chunk.text,
                !.groundingMetadata = IF chunk.metadata # NoMeta
                                      THEN chunk.metadata ELSE @]

AppInit ==
    /\ messages = <<>>
    /\ sessions = <<>>
    /\ currentSessionId = NULL
    /\ isLoading = FALSE
    /\ streams = <<>>
    /\ nextId = 1
    /\ lastSubmit = "none"
    /\ steps = 0
    /\ stored = Stringify(<<>>)
    /\ boot = Mounted
    /\ ViewIdle
    /\ DriverIdle
    /\ InputIdle

\* a persist effect whose dependency is the number of sessions
PersistOnCount ==
    /\ stored' = IF Len(sessions') # Len(sessions) THEN Stringify(sessions') ELSE stored
    /\ UNCHANGED boot

\* The persist effect, which runs after a render in which sessions changed:
\*   localStorage.setItem('kynai_sessions', JSON.stringify(sessions))
Persist ==
    /\ stored' = IF sessions' # sessions THEN Stringify(sessions') ELSE stored
    /\ UNCHANGED boot

\* One more handler runs, within the length of the runs examined; handlers
\* run while App is mounted
Step == boot.phase = "mounted" /\ steps < MaxSteps /\ steps' = steps + 1

\* a send that appends the placeholder before the user message
handleSendMessagePlaceholderFirst(text, attachments) ==
    LET needSession == currentSessionId = NULL
        userId == 2 * Len(streams) + 1
        botMsgId == userId + 1
        userMsg == [id |-> userId, role |-> USER, text |-> text,
                    attachments |-> attachments, isStreaming |-> FALSE,
                    groundingMetadata |-> NoMeta]
        botMsg == [id |-> botMsgId, role |-> MODEL, text |-> <<>>,
                   attachments |-> <<>>, isStreaming |-> TRUE,
                   groundingMetadata |-> NoMeta]
        newSession == [id |-> nextId, title |-> TitleOf(text), messages |-> <<>>,
                       timestamp |-> nextId]
        sessions1 == IF needSession THEN <<newSession>> \o sessions ELSE sessions
        current1 == IF needSession THEN nextId ELSE currentSessionId
    IN /\ messages' = messages \o <<botMsg, userMsg>>
       /\ currentSessionId' = current1
       /\ sessions' = SyncSessions(sessions1, current1, messages')
       /\ isLoading' = TRUE
       /\ streams' = Append(streams,
                        [botMsgId |-> botMsgId, status |-> "open", chunks |-> <<>>,
                         history |-> messages \o <<userMsg>>, newMessage |-> text,
                         sessionId |-> current1, late |-> FALSE])
       /\ nextId' = IF needSession THEN nextId + 1 ELSE nextId

\* handleSendMessage up to its await: the session is created when there is
\* none, the user message and the placeholder are appended, the provider is
\* called with [...messages, userMsg]; then the render and the sync effect.
\* uuidv4() never returns a value twice: session ids are counted by nextId,
\* the two message ids of a send are numbered by the send.  Date.now() does
\* not decrease: a session created later has the larger timestamp.
handleSendMessage(text, attachments) ==
    LET needSession == currentSessionId = NULL
        userId == 2 * Len(streams) + 1
        botMsgId == userId + 1
        userMsg == [id |-> userId, role |-> USER, text |-> text,
                    attachments |-> attachments, isStreaming |-> FALSE,
                    groundingMetadata |-> NoMeta]
        botMsg == [id |-> botMsgId, role |-> MODEL, text |-> <<>>,
                   attachments |-> <<>>, isStreaming |-> TRUE,
                   groundingMetadata |-> NoMeta]
        newSession == [id |-> nextId, title |-> TitleOf(text), messages |-> <<>>,
                       timestamp |-> nextId]
        sessions1 == IF needSession THEN <<newSession>> \o sessions ELSE sessions
        current1 == IF needSession THEN nextId ELSE currentSessionId
    IN /\ messages' = messages \o <<userMsg, botMsg>>
       /\ currentSessionId' = current1
       /\ sessions' = SyncSessions(sessions1, current1, messages')
       /\ isLoading' = TRUE
       /\ streams' = Append(streams,
                        [botMsgId |-> botMsgId, status |-> "open", chunks |-> <<>>,
                         history |-> messages \o <<userMsg>>, newMessage |-> text,
                         sessionId |-> current1, late |-> FALSE])
       /\ nextId' = IF needSession THEN nextId + 1 ELSE nextId

\* InputArea.handleSubmit
handleSubmit ==
    /\ Step
    /\ \E input \in Inputs :
          IF CanSubmit(input.text, input.attachments)
          THEN /\ handleSendMessage(input.text, input.attachments)
               /\ lastSubmit' = "none"
          ELSE /\ lastSubmit' = IF Trim(input.text) # <<>> \/ Len(input.attachments) > 0
                                THEN "disabled" ELSE "none"
               /\ UNCHANGED <<messages, sessions, currentSessionId, isLoading,
                              streams, nextId>>
    /\ Persist
    /\ UNCHANGED <<viewVars, driverVars, inputVars>>

\* a chunk callback that finds the message by its id in every session record
onChunkAllCopies(i, chunk) ==
    LET update(msg) == IF msg.id = streams[i].botMsgId
                       THEN ApplyChunk(msg, chunk) ELSE msg
    IN /\ Step
       /\ streams[i].status = "open"
       /\ messages' = [k \in DOMAIN messages |-> update(messages[k])]
       /\ sessions' = [j \in DOMAIN sessions |->
                         [sessions[j] EXCEPT !.messages =
                             [k \in DOMAIN @ |-> update(@[k])]]]
       /\ streams' = [streams EXCEPT ![i].chunks = Append(@, chunk)]
       /\ lastSubmit' = "none"
       /\ UNCHANGED <<currentSessionId, isLoading, nextId>>
       /\ Persist
       /\ UNCHANGED <<viewVars, driverVars, inputVars>>

\* a chunk callback that puts the message back when the list does not hold it
onChunkUpsert(i, chunk) ==
    LET update(msg) == IF msg.id = streams[i].botMsgId
                       THEN ApplyChunk(msg, chunk) ELSE msg
        held == \E k \in DOMAIN messages : messages[k].id = streams[i].botMsgId
        fresh == [id |-> streams[i].botMsgId, role |-> MODEL, text |-> chunk.text,
                  attachments |-> <<>>, isStreaming |-> TRUE,
                  groundingMetadata |-> chunk.metadata]
    IN /\ Step
       /\ streams[i].status = "open"
       /\ messages' = IF held THEN [k \in DOMAIN messages |-> update(messages[k])]
                      ELSE Append(messages, fresh)
       /\ sessions' = SyncSessions(sessions, currentSessionId, messages')
       /\ streams' = [streams EXCEPT ![i].chunks = Append(@, chunk),
                                     ![i].late = @ \/ Emptied]
       /\ lastSubmit' = "none"
       /\ UNCHANGED <<currentSessionId, isLoading, nextId>>
       /\ Persist
       /\ UNCHANGED <<viewVars, driverVars, inputVars>>

\* The provider delivers a chunk to the callback of call i
onChunk(i, chunk) ==
    LET update(msg) == IF msg.id = streams[i].botMsgId
                       THEN ApplyChunk(msg, chunk) ELSE msg
    IN /\ Step
       /\ streams[i].status = "open"
       /\ messages' = [k \in DOMAIN messages |-> update(messages[k])]
       /\ sessions' = SyncSessions(sessions, currentSessionId, messages')
       /\ streams' = [streams EXCEPT ![i].chunks = Append(@, chunk),
                                     ![i].late = @ \/ Emptied]
       /\ lastSubmit' = "none"
       /\ UNCHANGED <<currentSessionId, isLoading, nextId>>
       /\ Persist
       /\ UNCHANGED <<viewVars, driverVars, inputVars>>

\* streamChatResponse returned: isStreaming: false, then finally
StreamComplete(i) ==
    LET update(msg) == IF msg.id = streams[i].botMsgId
                       THEN [msg EXCEPT !.isStreaming = FALSE] ELSE msg
    IN /\ Step
       /\ streams[i].status = "open"
       /\ messages' = [k \in DOMAIN messages |-> update(messages[k])]
       /\ sessions' = SyncSessions(sessions, currentSessionId, messages')
       /\ isLoading' = FALSE
       /\ streams' = [streams EXCEPT ![i].status = "done",
                                     ![i].late = @ \/ Emptied]
       /\ lastSubmit' = "none"
       /\ UNCHANGED <<currentSessionId, nextId>>
       /\ Persist
       /\ UNCHANGED <<viewVars, driverVars, inputVars>>

\* a catch block that writes the apology without the test of the id
StreamFailAll(i) ==
    LET update(msg) == IF msg.role = MODEL
                       THEN [msg EXCEPT !.text = APOLOGY, !.isStreaming = FALSE]
                       ELSE msg
    IN /\ Step
       /\ streams[i].status = "open"
       /\ messages' = [k \in DOMAIN messages |-> update(messages[k])]
       /\ sessions' = SyncSessions(sessions, currentSessionId, messages')
       /\ isLoading' = FALSE
       /\ streams' = [streams EXCEPT ![i].status = "failed"]
       /\ lastSubmit' = "none"
       /\ UNCHANGED <<currentSessionId, nextId>>
       /\ Persist
       /\ UNCHANGED <<viewVars, driverVars, inputVars>>

\* a catch block that takes the placeholder of the failed call off the list
StreamFailRemove(i) ==
    LET kept == SelectSeq(messages, LAMBDA msg : msg.id # streams[i].botMsgId)
    IN /\ Step
       /\ streams[i].status = "open"
       /\ messages' = kept
       /\ sessions' = SyncSessions(sessions, currentSessionId, messages')
       /\ isLoading' = FALSE
       /\ streams' = [streams EXCEPT ![i].status = "failed"]
       /\ lastSubmit' = "none"
       /\ UNCHANGED <<currentSessionId, nextId>>
       /\ Persist
       /\ UNCHANGED <<viewVars, driverVars, inputVars>>

\* a catch block that calls the provider again for the same placeholder
StreamFailRetry(i) ==
    /\ Step
    /\ streams[i].status = "open"
    /\ streams' = Append([streams EXCEPT ![i].status = "failed"],
                         [streams[i] EXCEPT !.chunks = <<>>])
    /\ lastSubmit' = "none"
    /\ UNCHANGED <<messages, sessions, currentSessionId, isLoading, nextId>>
    /\ Persist
    /\ UNCHANGED <<viewVars, driverVars, inputVars>>

\* a catch block with no finally after it: isLoading is left as it is
StreamFailNoFinally(i) ==
    LET update(msg) == IF msg.id = streams[i].botMsgId
                       THEN [msg EXCEPT !.text = APOLOGY, !.isStreaming = FALSE]
                       ELSE msg
    IN /\ Step
       /\ streams[i].status = "open"
       /\ messages' = [k \in DOMAIN messages |-> update(messages[k])]
       /\ sessions' = SyncSessions(sessions, currentSessionId, messages')
       /\ streams' = [streams EXCEPT ![i].status = "failed"]
       /\ lastSubmit' = "none"
       /\ UNCHANGED <<currentSessionId, isLoading, nextId>>
       /\ Persist
       /\ UNCHANGED <<viewVars, driverVars, inputVars>>

\* streamChatResponse threw: the catch block, then finally
StreamFail(i) ==
    LET update(msg) == IF msg.id = streams[i].botMsgId
                       THEN [msg EXCEPT !.text = APOLOGY, !.isStreaming = FALSE]
                       ELSE msg
    IN /\ Step
       /\ streams[i].status = "open"
       /\ messages' = [k \in DOMAIN messages |-> update(messages[k])]
       /\ sessions' = SyncSessions(sessions, currentSessionId, messages')
       /\ isLoading' = FALSE
       /\ streams' = [streams EXCEPT ![i].status = "failed",
                                     ![i].late = @ \/ Emptied]
       /\ lastSubmit' = "none"
       /\ UNCHANGED <<currentSessionId, nextId>>
       /\ Persist
       /\ UNCHANGED <<viewVars, driverVars, inputVars>>

\* handleNewChat: createNewSession
handleNewChat ==
    /\ Step
    /\ sessions' = <<[id |-> nextId, title |-> NEW_CHAT, messages |-> <<>>,
                       timestamp |-> nextId]>> \o sessions
    /\ currentSessionId' = nextId
    /\ messages' = <<>>
    /\ nextId' = nextId + 1
    /\ lastSubmit' = "none"
    /\ UNCHANGED <<isLoading, streams>>
    /\ Persist
    /\ UNCHANGED <<viewVars, driverVars, inputVars>>

\* a selection that shows the messages of the session without making it the
\* current one
handleSelectSessionKeepCurrent(k) ==
    /\ Step
    /\ messages' = sessions[k].messages
    /\ sessions' = SyncSessions(sessions, currentSessionId, messages')
    /\ lastSubmit' = "none"
    /\ UNCHANGED <<currentSessionId, isLoading, streams, nextId>>
    /\ Persist
    /\ UNCHANGED <<viewVars, driverVars, inputVars>>

\* handleSelectSession(session), session being one of the rendered sessions
handleSelectSession(k) ==
    /\ Step
    /\ currentSessionId' = sessions[k].id
    /\ messages' = sessions[k].messages
    /\ sessions' = SyncSessions(sessions, currentSessionId', messages')
    /\ lastSubmit' = "none"
    /\ UNCHANGED <<isLoading, streams, nextId>>
    /\ Persist
    /\ UNCHANGED <<viewVars, driverVars, inputVars>>

\* a delete-all that leaves the displayed list as it is
handleDeleteAllKeepMessages(confirmed) ==
    /\ Step
    /\ IF confirmed
       THEN sessions' = <<>> /\ currentSessionId' = NULL /\ UNCHANGED messages
       ELSE UNCHANGED <<sessions, messages, currentSessionId>>
    /\ lastSubmit' = "none"
    /\ UNCHANGED <<isLoading, streams, nextId>>
    /\ Persist
    /\ UNCHANGED <<viewVars, driverVars, inputVars>>

\* a delete-all that does not look at the answer of window.confirm
handleDeleteAllUnasked(confirmed) ==
    /\ Step
    /\ sessions' = <<>> /\ messages' = <<>> /\ currentSessionId' = NULL
    /\ lastSubmit' = "none"
    /\ UNCHANGED <<isLoading, streams, nextId>>
    /\ Persist
    /\ UNCHANGED <<viewVars, driverVars, inputVars>>

\* handleDeleteAll, the user having answered window.confirm
handleDeleteAll(confirmed) ==
    /\ Step
    /\ IF confirmed
       THEN sessions' = <<>> /\ messages' = <<>> /\ currentSessionId' = NULL
       ELSE UNCHANGED <<sessions, messages, currentSessionId>>
    /\ lastSubmit' = "none"
    /\ UNCHANGED <<isLoading, streams, nextId>>
    /\ Persist
    /\ UNCHANGED <<viewVars, driverVars, inputVars>>

Next ==
    \/ handleSubmit
    \/ \E i \in DOMAIN streams : \E chunk \in AppChunks : onChunk(i, chunk)
    \/ \E i \in DOMAIN streams : StreamComplete(i)
    \/ \E i \in DOMAIN streams : StreamFail(i)
    \/ handleNewChat
    \/ \E k \in DOMAIN sessions : handleSelectSession(k)
    \/ \E confirmed \in BOOLEAN : handleDeleteAll(confirmed)

Init == AppInit

Spec == Init /\ [][Next]_vars

----------------------------------------------------------------------------
(* LiveSpec: the handlers of Spec with a provider call that terminates.  The  *)
(* user acts and chunks arrive during the first MaxLiveSteps steps of a run;  *)
(* the call in flight returns or throws at any step, also after them.        *)

MaxLiveSteps == 5      \* user actions and chunks in a run of LiveSpec

LiveStep == steps < MaxLiveSteps

\* the await of handleSendMessage resumes: streamChatResponse returned or threw
Terminate == \E i \in DOMAIN streams : StreamComplete(i) \/ StreamFail(i)

LiveNext ==
    \/ LiveStep /\ handleSubmit
    \/ LiveStep /\ \E i \in DOMAIN streams : \E chunk \in AppChunks : onChunk(i, chunk)
    \/ Terminate
    \/ LiveStep /\ handleNewChat
    \/ LiveStep /\ \E k \in DOMAIN sessions : handleSelectSession(k)
    \/ LiveStep /\ \E confirmed \in BOOLEAN : handleDeleteAll(confirmed)

LiveSpec == Init /\ [][LiveNext]_vars /\ WF_vars(Terminate)

----------------------------------------------------------------------------
(* StartSpec: the start of the application.  localStorage holds whatever an  *)
(* earlier run, or anything else, left under 'kynai_sessions'; App mounts    *)
(* and its effects run (the load effect, the persist effect, the sync        *)
(* effect); then the handlers of Spec run.                                   *)

MaxStartSteps == 3     \* handler invocations after the mount

\* The messages of a session saved by an earlier run
SavedMessages ==
    << [id |-> 101, role |-> USER, text |-> <<"h","i">>, attachments |-> <<>>,
        isStreaming |-> FALSE, groundingMetadata |-> NoMeta],
       [id |-> 102, role |-> MODEL, text |-> <<"y","o">>, attachments |-> <<>>,
        isStreaming |-> FALSE, groundingMetadata |-> NoMeta] >>

\* Two sessions saved by an earlier run; timestamps count from the start of
\* this run, so theirs are negative
SavedOld == [id |-> 91, title |-> <<"h","i">>, messages |-> SavedMessages,
             timestamp |-> 0 - 2]
SavedNew == [id |-> 92, title |-> NEW_CHAT, messages |-> <<>>, timestamp |-> 0 - 1]

\* What localStorage.getItem('kynai_sessions') may return at the start: null
\* (no item), the empty string, a text that is not JSON, the JSON text of
\* null, of an object, or of an array of sessions
Blobs ==
    { [kind |-> k, list |-> <<>>] : k \in {"absent", "empty", "invalid", "null", "object"} }
    \cup { Stringify(list) : list \in { <<>>, <<SavedOld>>, <<SavedNew, SavedOld>>,
                                        <<SavedOld, SavedNew>> } }

\* parsed.sort((a, b) => b.timestamp - a.timestamp): newest first, sessions
\* of equal timestamp in the order they had
RECURSIVE SortByTimestamp(_)
SortByTimestamp(list) ==
    IF list = <<>> THEN <<>>
    ELSE LET rest == SortByTimestamp(SubSeq(list, 1, Len(list) - 1))
             last == list[Len(list)]
             n == Cardinality({p \in DOMAIN rest : rest[p].timestamp >= last.timestamp})
         IN SubSeq(rest, 1, n) \o <<last>> \o SubSeq(rest, n + 1, Len(rest))

StartInit ==
    /\ messages = <<>>
    /\ sessions = <<>>
    /\ currentSessionId = NULL
    /\ isLoading = FALSE
    /\ streams = <<>>
    /\ nextId = 1
    /\ lastSubmit = "none"
    /\ steps = 0
    /\ stored \in Blobs
    /\ boot = [phase |-> "unmounted", reads |-> 0, item |-> "absent", held |-> "array"]
    /\ ViewIdle
    /\ DriverIdle
    /\ InputIdle

\* The first render of App and its effects, in the order of the source.
\* The load effect reads the item; if (savedSessions) skips null and ''.
\* JSON.parse throws on a text that is not JSON and the catch leaves the
\* state as it is.  Otherwise setSessions(parsed) is queued before
\* parsed.length is read: for null that read throws and is caught, for an
\* object it is undefined and the branch is skipped; either way the sessions
\* state holds parsed after the next render.  For an array with sessions the
\* array is sorted in place and the newest session becomes the current one.
\* The persist effect of the first render writes the initial sessions ([]).
\* The second render has the state the load effect queued: Sidebar reads
\* sessions.length and calls sessions.sort, which throws when sessions is not
\* an array, and React unmounts App; when it is an array the sync and persist
\* effects run as after any render.
Mount ==
    LET skipped == stored.kind \in {"absent", "empty"}
        thrown == stored.kind = "invalid"
        isArray == stored.kind = "array"
        loaded == IF isArray /\ Len(stored.list) > 0
                  THEN SortByTimestamp(stored.list) ELSE stored.list
        booted(phase, held) == [phase |-> phase, reads |-> boot.reads + 1,
                                item |-> stored.kind, held |-> held]
    IN /\ boot.phase = "unmounted"
       /\ IF skipped \/ thrown
          THEN /\ boot' = booted("mounted", "array")
               /\ stored' = Stringify(sessions)
               /\ UNCHANGED <<messages, sessions, currentSessionId>>
          ELSE IF ~isArray
          THEN /\ boot' = booted("crashed", stored.kind)
               /\ stored' = Stringify(sessions)
               /\ UNCHANGED <<messages, sessions, currentSessionId>>
          ELSE /\ boot' = booted("mounted", "array")
               /\ currentSessionId' = IF Len(loaded) > 0 THEN loaded[1].id
                                      ELSE currentSessionId
               /\ messages' = IF Len(loaded) > 0 THEN loaded[1].messages ELSE messages
               /\ sessions' = SyncSessions(loaded, currentSessionId', messages')
               /\ stored' = Stringify(sessions')
       /\ UNCHANGED <<isLoading, streams, nextId, lastSubmit, steps>>
       /\ UNCHANGED <<viewVars, driverVars, inputVars>>

\* One more handler may run after the mount
StartStep == steps < MaxStartSteps

StartNext ==
    \/ Mount
    \/ StartStep /\ handleSubmit
    \/ StartStep /\ \E i \in DOMAIN streams : \E chunk \in AppChunks : onChunk(i, chunk)
    \/ StartStep /\ \E i \in DOMAIN streams : StreamComplete(i)
    \/ StartStep /\ \E i \in DOMAIN streams : StreamFail(i)
    \/ StartStep /\ handleNewChat
    \/ StartStep /\ \E k \in DOMAIN sessions : handleSelectSession(k)
    \/ StartStep /\ \E confirmed \in BOOLEAN : handleDeleteAll(confirmed)

StartSpec == StartInit /\ [][StartNext]_vars

----------------------------------------------------------------------------
(* FileSpec: the attachments of InputArea (src/components/InputArea.tsx).    *)
(* handleFileSelect is asynchronous: it awaits the reading or conversion of  *)
(* each file in turn, so that other handlers, a second selection included,   *)
(* run between two files.  A file is its name (the parts between the dots),  *)
(* the type the browser reports ('' is <<>>, 'image/png' is                  *)
(* <<"image","png">>) and what reading it gives: "data", "empty" (nothing    *)
(* to read or to extract) or "corrupt" (the converter rejects it).           *)

MaxFiles == 2          \* files in one selection
MaxInputSteps == 3     \* handler invocations and file completions in a run

OCTET_STREAM == <<"application", "octet-stream">>

mimeMap ==
    [pdf |-> <<"application", "pdf">>, csv |-> <<"text", "csv">>,
     txt |-> <<"text", "plain">>, md |-> <<"text", "markdown">>,
     json |-> <<"application", "json">>, js |-> <<"text", "javascript">>,
     ts |-> <<"text", "typescript">>, py |-> <<"text", "x-python">>,
     html |-> <<"text", "html">>, css |-> <<"text", "css">>,
     xml |-> <<"application", "xml">>, rtf |-> <<"application", "rtf">>]

\* toLowerCase, on the extensions the model's files have
ToLowerCase(word) == IF word = "DOCX" THEN "docx" ELSE word

\* file.name.split('.').pop()?.toLowerCase()
ExtOf(file) == ToLowerCase(file.name[Len(file.name)])

\* getMimeType
getMimeType(file) ==
    IF file.type # <<>> THEN file.type
    ELSE IF ExtOf(file) \in DOMAIN mimeMap THEN mimeMap[ExtOf(file)]
    ELSE OCTET_STREAM

\* The files the user may select
Files ==
    { [name |-> <<"broken", "DOCX">>, type |-> <<>>, content |-> "corrupt"],
      [name |-> <<"photo", "png">>, type |-> <<"image", "png">>, content |-> "data"],
      [name |-> <<"notes", "txt">>, type |-> <<>>, content |-> "empty"] }

\* e.target.files: the selections of up to MaxFiles different files, in the
\* order of the file list
Selections ==
    { files \in UNION { [1..n -> Files] : n \in 0..MaxFiles } :
          \A p, q \in DOMAIN files : p # q => files[p] # files[q] }

\* One pass of the body of the for loop over a file: "thrown" when the
\* conversion throws (the catch alerts), "skipped" when base64Data is empty
\* (continue), otherwise the attachment that is pushed
ReadFile(file, id) ==
    LET ext == ExtOf(file)
        converted == ext \in {"docx", "xlsx", "xls"}
        mimeType == IF ext = "docx" THEN <<"text", "plain">>
                    ELSE IF ext \in {"xlsx", "xls"} THEN <<"text", "csv">>
                    ELSE getMimeType(file)
        type == IF mimeType[1] \in {"image", "video", "audio"} THEN mimeType[1]
                ELSE "file"
    IN IF converted /\ file.content = "corrupt" THEN [kind |-> "thrown"]
       ELSE IF file.content = "empty" THEN [kind |-> "skipped"]
       ELSE [kind |-> "pushed",
             attachment |-> [id |-> id, mimeType |-> mimeType, data |-> "base64",
                             name |-> file.name, type |-> type]]

FileInit ==
    /\ InputIdle
    /\ AppIdle
    /\ ViewIdle
    /\ DriverIdle

InputStep == inputArea.steps < MaxInputSteps

\* handleFileSelect up to its first await: the files are copied from the
\* list; nothing happens when the list is empty
handleFileSelect(files) ==
    /\ InputStep
    /\ inputArea' = [inputArea EXCEPT
                        !.steps = @ + 1,
                        !.batches = IF Len(files) > 0
                                    THEN Append(@, [files |-> files, pos |-> 1,
                                                    newAttachments |-> <<>>])
                                    ELSE @]
    /\ UNCHANGED <<appVars, viewVars, driverVars>>

\* a loop whose try block is around the whole loop: a file that throws ends
\* the selection
ProcessFileAbort(b) ==
    LET batch == inputArea.batches[b]
        result == ReadFile(batch.files[batch.pos], inputArea.nextId)
        pushed == IF result.kind = "pushed"
                  THEN Append(batch.newAttachments, result.attachment)
                  ELSE batch.newAttachments
        last == batch.pos = Len(batch.files) \/ result.kind = "thrown"
    IN /\ InputStep
       /\ batch.pos <= Len(batch.files)
       /\ inputArea' = [inputArea EXCEPT
                           !.steps = @ + 1,
                           !.nextId = IF result.kind = "pushed" THEN @ + 1 ELSE @,
                           !.alerts = IF result.kind = "thrown" THEN @ + 1 ELSE @,
                           !.batches[b].newAttachments = pushed,
                           !.batches[b].pos = IF last THEN Len(batch.files) + 1 ELSE @ + 1,
                           !.attachments = IF last THEN @ \o pushed ELSE @]
       /\ UNCHANGED <<appVars, viewVars, driverVars>>

\* The reading or conversion of the file at hand of selection b ends: the
\* rest of the loop body runs (push, continue or catch with its alert), and
\* after the last file setAttachments(prev => [...prev, ...newAttachments])
ProcessFile(b) ==
    LET batch == inputArea.batches[b]
        result == ReadFile(batch.files[batch.pos], inputArea.nextId)
        pushed == IF result.kind = "pushed"
                  THEN Append(batch.newAttachments, result.attachment)
                  ELSE batch.newAttachments
        last == batch.pos = Len(batch.files)
    IN /\ InputStep
       /\ batch.pos <= Len(batch.files)
       /\ inputArea' = [inputArea EXCEPT
                           !.steps = @ + 1,
                           !.nextId = IF result.kind = "pushed" THEN @ + 1 ELSE @,
                           !.alerts = IF result.kind = "thrown" THEN @ + 1 ELSE @,
                           !.batches[b].newAttachments = pushed,
                           !.batches[b].pos = @ + 1,
                           !.attachments = IF last THEN @ \o pushed ELSE @]
       /\ UNCHANGED <<appVars, viewVars, driverVars>>

\* removeAttachment(id), id being the id of a displayed attachment
removeAttachment(id) ==
    /\ InputStep
    /\ inputArea' = [inputArea EXCEPT
                        !.steps = @ + 1,
                        !.attachments = SelectSeq(@, LAMBDA att : att.id # id)]
    /\ UNCHANGED <<appVars, viewVars, driverVars>>

FileNext ==
    \/ \E files \in Selections : handleFileSelect(files)
    \/ \E b \in DOMAIN inputArea.batches : ProcessFile(b)
    \/ \E p \in DOMAIN inputArea.attachments : removeAttachment(inputArea.attachments[p].id)

FileSpec == FileInit /\ [][FileNext]_vars

----------------------------------------------------------------------------
(* DriverSpec: one call of streamChatResponse (src/services/gemini.ts), from  *)
(* the request it builds to its return or throw, together with what the      *)
(* caller (handleSendMessage) does to the placeholder message on each chunk,  *)
(* on return and on throw.  The remote service is the environment: it        *)
(* decides the outcome of the request and the chunks.  twin is the same call  *)
(* made with the other value of useSearch and given the same responses.       *)

MaxDriverChunks == 2   \* chunks the remote service delivers to a call

GEMINI == "gemini"
GPT == "gpt"

\* an instruction whose chain-of-thought text depends on useSearch
getSystemInstructionCotOnSearch(useSearch, useDeepThink, provider) ==
    <<"BASE_INSTRUCTION">>
        \o (IF useSearch THEN <<"FEW_SHOT_COT">> ELSE <<>>)
        \o (IF useSearch /\ provider = GEMINI THEN <<"GOOGLE_SEARCH">> ELSE <<>>)

\* BASE_INSTRUCTION, then the chain-of-thought text when useDeepThink, then the
\* search text when useSearch && provider === 'gemini'; each text is one token
getSystemInstruction(useSearch, useDeepThink, provider) ==
    <<"BASE_INSTRUCTION">>
        \o (IF useDeepThink THEN <<"FEW_SHOT_COT">> ELSE <<>>)
        \o (IF useSearch /\ provider = GEMINI THEN <<"GOOGLE_SEARCH">> ELSE <<>>)

\* the parts of a message: its text when not empty, then its attachments
GeminiParts(text, attachments) ==
    (IF text # <<>> THEN <<[text |-> text]>> ELSE <<>>)
        \o [k \in DOMAIN attachments |-> [inlineData |-> attachments[k]]]

\* What streamGeminiResponse sends: ai.chats.create({model, history, config})
\* and chat.sendMessageStream({message}); undefined is <<>> or 0
streamGeminiRequest(history, newMessage, useSearch, useDeepThink) ==
    LET contents == [k \in DOMAIN history |->
                        [role |-> IF history[k].role = USER THEN "user" ELSE "model",
                         parts |-> GeminiParts(history[k].text, history[k].attachments)]]
        pastContent == SubSeq(contents, 1, Len(contents) - 1)
        validHistory == SelectSeq(pastContent, LAMBDA c : Len(c.parts) > 0)
        lastMessage == history[Len(history)]
        parts == GeminiParts(newMessage, lastMessage.attachments)
        currentMessageParts == IF Len(parts) = 0 THEN <<[text |-> <<" ">>]>> ELSE parts
    IN [model |-> "gemini-2.5-flash",
        history |-> validHistory,
        systemInstruction |-> getSystemInstruction(useSearch, useDeepThink, GEMINI),
        tools |-> IF useSearch THEN <<"googleSearch">> ELSE <<>>,
        thinkingBudget |-> IF useDeepThink THEN 2048 ELSE 0,
        message |-> currentMessageParts]

\* a gpt request built from the whole history, the new message included
streamGptRequestWholeHistory(history, newMessage, useDeepThink, seed) ==
    [messages |->
        <<[role |-> "system", content |-> getSystemInstruction(FALSE, useDeepThink, GPT)]>>
        \o [k \in 1..Len(history) |->
               [role |-> IF history[k].role = MODEL THEN "assistant" ELSE "user",
                content |-> history[k].text]]
        \o <<[role |-> "user", content |-> newMessage]>>,
     model |-> "openai",
     seed |-> seed,
     jsonMode |-> FALSE]

\* What streamGptResponse posts: {messages, model, seed, jsonMode}
streamGptRequest(history, newMessage, useDeepThink, seed) ==
    [messages |->
        <<[role |-> "system", content |-> getSystemInstruction(FALSE, useDeepThink, GPT)]>>
        \o [k \in 1..(Len(history) - 1) |->
               [role |-> IF history[k].role = MODEL THEN "assistant" ELSE "user",
                content |-> history[k].text]]
        \o <<[role |-> "user", content |-> newMessage]>>,
     model |-> "openai",
     seed |-> seed,
     jsonMode |-> FALSE]

\* a dispatch in which the gpt driver is given the search flag
streamChatRequestWithSearch(history, newMessage, useSearch, useDeepThink, provider, seed) ==
    IF provider = GPT
    THEN [streamGptRequest(history, newMessage, useDeepThink, seed) EXCEPT
            !.messages[1].content = getSystemInstruction(useSearch, useDeepThink, GEMINI)]
    ELSE streamGeminiRequest(history, newMessage, useSearch, useDeepThink)

\* streamChatResponse: the request of the driver the provider selects
streamChatRequest(history, newMessage, useSearch, useDeepThink, provider, seed) ==
    IF provider = GPT
    THEN streamGptRequest(history, newMessage, useDeepThink, seed)
    ELSE streamGeminiRequest(history, newMessage, useSearch, useDeepThink)

\* fullText = text, in place of fullText += text
AccumulateLast(fullText, text) == text

\* fullText += text
Accumulate(fullText, text) == fullText \o text

\* The call as made by handleSendMessage, with the placeholder it has appended
NewCall(history, useSearch, useDeepThink, provider, seed) ==
    [status |-> "called",
     provider |-> provider,
     history |-> history,
     newMessage |-> history[Len(history)].text,
     useSearch |-> useSearch,
     useDeepThink |-> useDeepThink,
     request |-> streamChatRequest(history, history[Len(history)].text,
                                   useSearch, useDeepThink, provider, seed),
     response |-> "pending",
     error |-> "none",
     fullText |-> <<>>,
     forwarded |-> <<>>,
     returned |-> <<>>,
     botMsg |-> [id |-> 2 * Len(history), role |-> MODEL, text |-> <<>>,
                 attachments |-> <<>>, isStreaming |-> TRUE,
                 groundingMetadata |-> NoMeta]]

\* The call throws; the catch block of handleSendMessage writes the apology
Thrown(c, error) ==
    [c EXCEPT !.status = "thrown",
              !.error = error,
              !.botMsg = [@ EXCEPT !.text = APOLOGY, !.isStreaming = FALSE]]

\* The request is answered.  streamGptResponse: fetch rejects on a network
\* failure; a response without a body throws; any other response, whatever its
\* status, is read.  streamGeminiResponse: sendMessageStream rejects or gives
\* the stream.
AfterFetch(c, outcome) ==
    LET r == [c EXCEPT !.response = outcome]
    IN IF c.provider = GPT
       THEN IF outcome = "network" THEN Thrown(r, "fetch rejected")
            ELSE IF outcome = "noBody" THEN Thrown(r, "No response body")
            ELSE [r EXCEPT !.status = "reading"]
       ELSE IF outcome = "network" THEN Thrown(r, "sendMessageStream rejected")
            ELSE [r EXCEPT !.status = "reading"]

\* What the driver passes to onChunk for a chunk of the remote service.
\* gpt: onChunk(chunk), and streamChatResponse drops any second argument;
\* gemini: onChunk(text || "", metadata)
Forwarded(c, raw) ==
    IF c.provider = GPT
    THEN [text |-> raw.text, metadata |-> NoMeta]
    ELSE [text |-> IF raw.defined THEN raw.text ELSE <<>>, metadata |-> raw.metadata]

\* One chunk is read: fullText grows, onChunk is called, and the callback of
\* handleSendMessage updates the placeholder
AfterRead(c, raw) ==
    [c EXCEPT !.fullText = IF c.provider = GPT
                           THEN Accumulate(@, raw.text)
                           ELSE IF raw.defined /\ raw.text # <<>>
                                THEN Accumulate(@, raw.text) ELSE @,
              !.forwarded = Append(@, Forwarded(c, raw)),
              !.botMsg = ApplyChunk(@, Forwarded(c, raw))]

\* The stream ends: return fullText; handleSendMessage clears isStreaming
AfterDone(c) ==
    [c EXCEPT !.status = "returned",
              !.returned = c.fullText,
              !.botMsg = [@ EXCEPT !.isStreaming = FALSE]]

\* Conversations passed as history, the last message being the user's new one
DriverHistories ==
    LET user(id, text, attachments) ==
            [id |-> id, role |-> USER, text |-> text, attachments |-> attachments,
             isStreaming |-> FALSE, groundingMetadata |-> NoMeta]
        model(id, text) ==
            [id |-> id, role |-> MODEL, text |-> text, attachments |-> <<>>,
             isStreaming |-> FALSE, groundingMetadata |-> NoMeta]
    IN { <<user(1, QUESTION, <<>>)>>,
         <<user(1, <<>>, <<"file">>)>>,
         <<user(1, <<>>, <<"file">>), model(2, <<"a">>), user(3, QUESTION, <<"file">>)>> }

\* How the remote service may answer the request
DriverOutcomes == {"network", "noBody", "notOk", "ok"}

\* What the remote service may deliver in one chunk: c.text (possibly
\* undefined) and the grounding metadata of the first candidate
RawChunks ==
    { [defined |-> TRUE, text |-> <<"a">>, metadata |-> NoMeta],
      [defined |-> TRUE, text |-> <<"b","c">>, metadata |-> "A"],
      [defined |-> FALSE, text |-> <<>>, metadata |-> "B"],
      [defined |-> TRUE, text |-> <<>>, metadata |-> NoMeta] }

\* Values of Math.floor(Math.random() * 1000)
Seeds == {0, 999}

DriverInit ==
    /\ AppIdle
    /\ ViewIdle
    /\ InputIdle
    /\ \E history \in DriverHistories, useSearch \in BOOLEAN, useDeepThink \in BOOLEAN,
          provider \in {GEMINI, GPT}, seed \in Seeds, seed2 \in Seeds :
          /\ call = NewCall(history, useSearch, useDeepThink, provider, seed)
          /\ twin = NewCall(history, ~useSearch, useDeepThink, provider, seed2)

\* await fetch(...) / await chat.sendMessageStream(...)
Fetch(outcome) ==
    /\ call.status = "called"
    /\ call.provider = GEMINI => outcome \in {"network", "ok"}
    /\ call' = AfterFetch(call, outcome)
    /\ twin' = AfterFetch(twin, outcome)
    /\ UNCHANGED <<appVars, viewVars, inputVars>>

\* await reader.read() with done false / one turn of for await
Read(raw) ==
    /\ call.status = "reading"
    /\ Len(call.forwarded) < MaxDriverChunks
    /\ call.provider = GPT => raw.defined /\ raw.metadata = NoMeta
    /\ call' = AfterRead(call, raw)
    /\ twin' = AfterRead(twin, raw)
    /\ UNCHANGED <<appVars, viewVars, inputVars>>

\* reader.read() with done true / the end of the iteration
ReadDone ==
    /\ call.status = "reading"
    /\ call' = AfterDone(call)
    /\ twin' = AfterDone(twin)
    /\ UNCHANGED <<appVars, viewVars, inputVars>>

\* reader.read() rejects / the iteration throws: the connection broke
ReadError ==
    /\ call.status = "reading"
    /\ call' = Thrown(call, "read rejected")
    /\ twin' = Thrown(twin, "read rejected")
    /\ UNCHANGED <<appVars, viewVars, inputVars>>

DriverNext ==
    \/ \E outcome \in DriverOutcomes : Fetch(outcome)
    \/ \E raw \in RawChunks : Read(raw)
    \/ ReadDone
    \/ ReadError

DriverSpec == DriverInit /\ [][DriverNext]_vars

----------------------------------------------------------------------------
(* Claims about the App (Spec) *)

\* The message lists the program holds: the displayed one and one per session
Lists == {messages} \cup {sessions[j].messages : j \in DOMAIN sessions}

\* The copies of the message id that the program holds
Copies(id) == {m \in UNION {{L[p] : p \in DOMAIN L} : L \in Lists} : m.id = id}

\* c1 + c2 + ... + cn for the chunks delivered to the callback of call i
Delivered(i) == Flatten([k \in DOMAIN streams[i].chunks |-> streams[i].chunks[k].text])

\* The calls that have not returned or thrown yet
InFlight == {i \in DOMAIN streams : streams[i].status = "open"}

\* C1: once the stream of a send has delivered chunks c1..cn and completed,
\* the text of the model message created for that send is c1+c2+...+cn, in
\* arrival order, wherever the program holds that message.
C1_AppendOnlyGrowth ==
    \A i \in DOMAIN streams :
        streams[i].status = "done" =>
            \A m \in Copies(streams[i].botMsgId) : m.text = Delivered(i)

\* C2: once the provider call of a send has failed, the model message of that
\* send has the apology as its text and isStreaming false, and the messages
\* before it, the user message of the send included, are the ones that were
\* there when the call was made.
C2_ErrorTerminalState ==
    \A i \in DOMAIN streams :
        streams[i].status = "failed" =>
            \A L \in Lists : \A p \in DOMAIN L :
                L[p].id = streams[i].botMsgId =>
                    /\ L[p].text = APOLOGY
                    /\ L[p].isStreaming = FALSE
                    /\ SubSeq(L, 1, p - 1) = streams[i].history

\* C3: once a stream has terminated, by completion or by failure, the model
\* message created for it has isStreaming false, in the displayed list and in
\* the session records, whatever navigation happened while it was in flight.
C3_StreamingFlagCleared ==
    \A i \in DOMAIN streams :
        streams[i].status # "open" =>
            \A m \in Copies(streams[i].botMsgId) : m.isStreaming = FALSE

\* C4: at most one provider call is in flight at any time; while one is in
\* flight isLoading is true (the input boundary is disabled) and no submit
\* starts a second call, also after the user moved to another session; when
\* none is in flight isLoading is false.
C4_SingleStreamInFlight ==
    /\ Cardinality(InFlight) <= 1
    /\ isLoading <=> InFlight # {}

\* C4 witness: a stream is in flight, the user has moved to another session
\* and a submit with text has just been stopped by disabled
C4_Witness ==
    /\ isLoading
    /\ lastSubmit = "disabled"
    /\ currentSessionId # NULL
    /\ \E i \in InFlight : \A p \in DOMAIN messages : messages[p].id # streams[i].botMsgId

\* C12: the title of a session that holds messages is the first 30 characters
\* of the text of its first message, a user message ('New Chat' when that text
\* is empty), and from the moment the session holds messages no step changes
\* its title: no later send, chunk, completion, failure or navigation.
C12_TitleFreeze ==
    /\ [](\A j \in DOMAIN sessions :
            sessions[j].messages # <<>> =>
                LET first == sessions[j].messages[1]
                    lead == SubSeq(first.text, 1,
                                   IF Len(first.text) < 30 THEN Len(first.text) ELSE 30)
                IN /\ first.role = USER
                   /\ sessions[j].title = IF lead = <<>> THEN NEW_CHAT ELSE lead)
    /\ [][\A j \in DOMAIN sessions : \A k \in DOMAIN sessions' :
            (sessions'[k].id = sessions[j].id /\ sessions[j].messages # <<>>)
                => sessions'[k].title = sessions[j].title]_vars

\* C12 witness: a session holds two sends, the first with a text of more than
\* 30 characters and the second with another text; its title is the first 30
\* characters of the first
C12_Witness ==
    \E j \in DOMAIN sessions :
        /\ Len(sessions[j].messages) >= 4
        /\ Len(sessions[j].messages[1].text) > 30
        /\ sessions[j].messages[3].role = USER
        /\ sessions[j].messages[3].text # sessions[j].messages[1].text
        /\ Len(sessions[j].title) = 30
        /\ sessions[j].title = SubSeq(sessions[j].messages[1].text, 1, 30)

\* The displayed list holds the model message of call i
Displayed(i) == \E p \in DOMAIN messages : messages[p].id = streams[i].botMsgId

StreamingIds ==
    {m.id : m \in {x \in UNION {{L[p] : p \in DOMAIN L} : L \in Lists} :
                      x.isStreaming = TRUE}}

\* C19: at most one message has isStreaming true, in the displayed list and
\* the session records together; it is the placeholder of the stream in
\* flight; and when no stream is in flight no message has isStreaming true.
C19_OneStreamingMessage ==
    /\ Cardinality(StreamingIds) <= 1
    /\ \A id \in StreamingIds : \E i \in InFlight : streams[i].botMsgId = id
    /\ InFlight = {} => StreamingIds = {}

\* C20: a message held with isStreaming false, a model message that finished
\* or a user message, is the same after every step wherever the program still
\* holds it: its text, its grounding metadata and its flag do not change under
\* any later chunk, completion, failure, send or navigation.
C20_FinishedMessageFrozen ==
    [][\A L \in Lists : \A p \in DOMAIN L :
          L[p].isStreaming = FALSE =>
              /\ \A q \in DOMAIN messages' :
                    messages'[q].id = L[p].id => messages'[q] = L[p]
              /\ \A j \in DOMAIN sessions' : \A q \in DOMAIN sessions'[j].messages :
                    sessions'[j].messages[q].id = L[p].id
                        => sessions'[j].messages[q] = L[p]]_vars

\* C20 witness: a model message finished with text and metadata, then a
\* second send was made in the session and its stream delivered text
C20_Witness ==
    /\ Len(messages) >= 4
    /\ messages[2].role = MODEL
    /\ messages[2].isStreaming = FALSE
    /\ messages[2].text # <<>>
    /\ messages[2].groundingMetadata # NoMeta
    /\ messages[4].isStreaming = TRUE
    /\ messages[4].text # <<>>

\* The ids of the messages of a list, in order
Ids(L) == [p \in DOMAIN L |-> L[p].id]

\* C21: the message sequence of a session only grows at its end.  In every
\* step that is a send, a chunk, a completion or a failure, the ids held by a
\* session record before the step are, in the same order, the first ids it
\* holds after the step, and the same for the displayed list; a chunk, a
\* completion or a failure leaves every sequence of ids as it was.
C21_SessionGrowsAtEnd ==
    [][streams' # streams =>
          /\ IsPrefix(Ids(messages), Ids(messages'))
          /\ \A j \in DOMAIN sessions : \E k \in DOMAIN sessions' :
                /\ sessions'[k].id = sessions[j].id
                /\ IsPrefix(Ids(sessions[j].messages), Ids(sessions'[k].messages))
          /\ Len(streams') = Len(streams) =>
                /\ Ids(messages') = Ids(messages)
                /\ Len(sessions') = Len(sessions)
                /\ \A j \in DOMAIN sessions :
                      Ids(sessions'[j].messages) = Ids(sessions[j].messages)]_vars

\* C21 witness: a session holds the four messages of two sends in the order
\* of their creation, the call of the second having failed
C21_Witness ==
    \E j \in DOMAIN sessions :
        /\ Ids(sessions[j].messages) = <<1, 2, 3, 4>>
        /\ Len(streams) = 2
        /\ streams[2].status = "failed"

\* The ids of the two messages created by send i
Created(i) == {streams[i].botMsgId - 1, streams[i].botMsgId}

\* C22: a message created by a send never appears in the message sequence of
\* a session other than the one the send was made in, whatever the
\* interleaving of sends, chunks, terminations and navigation; and the
\* displayed list holds it only while that session is the current one.
C22_SessionIsolation ==
    \A i \in DOMAIN streams :
        /\ \A j \in DOMAIN sessions : \A p \in DOMAIN sessions[j].messages :
              sessions[j].messages[p].id \in Created(i)
                  => sessions[j].id = streams[i].sessionId
        /\ \A p \in DOMAIN messages :
              messages[p].id \in Created(i)
                  => currentSessionId = streams[i].sessionId

\* C22 witness: a first send was made in one session, the user opened a new
\* chat while its stream was in flight, and a second send was made there;
\* each session holds the messages of its own send
C22_Witness ==
    /\ Len(streams) = 2
    /\ streams[2].status = "open"
    /\ streams[1].chunks # <<>>
    /\ \E j, k \in DOMAIN sessions :
          /\ sessions[j].id # sessions[k].id
          /\ Ids(sessions[j].messages) = <<1, 2>>
          /\ Ids(sessions[k].messages) = <<3, 4>>
          /\ sessions[j].messages[2].text = <<>>

\* C25: delete-all acts only after the user confirmed.  A delete-all the user
\* declined leaves sessions, messages and currentSessionId as they were; a
\* confirmed one leaves sessions and messages empty and no session current;
\* and no other step empties a session list that held sessions.
C25_DeleteAllFrame ==
    /\ [][\A confirmed \in BOOLEAN :
             handleDeleteAll(confirmed) =>
                 IF confirmed
                 THEN sessions' = <<>> /\ messages' = <<>> /\ currentSessionId' = NULL
                 ELSE /\ sessions' = sessions
                      /\ messages' = messages
                      /\ currentSessionId' = currentSessionId]_vars
    /\ [][(sessions # <<>> /\ sessions' = <<>>) => handleDeleteAll(TRUE)]_vars

\* C25 witness: messages were sent, and a confirmed delete-all has left no
\* session, no displayed message and no current session
C25_Witness ==
    /\ streams # <<>>
    /\ sessions = <<>>
    /\ messages = <<>>
    /\ currentSessionId = NULL

\* C28: within a send the user message is appended, the placeholder (empty
\* text, isStreaming true) directly after it, and the provider is called with
\* the placeholder in place: the step that starts call i appends exactly
\* these two messages and the call starts with no chunk delivered.  In every
\* list that holds it the placeholder immediately follows its user message,
\* and a chunk is delivered only to a call whose placeholder was appended.
C28_PlaceholderBeforeStream ==
    /\ [][Len(streams') = Len(streams) + 1 =>
             LET i == Len(streams')
                 n == Len(messages)
             IN /\ Len(messages') = n + 2
                /\ SubSeq(messages', 1, n) = messages
                /\ messages'[n + 1].role = USER
                /\ messages'[n + 1].id = streams'[i].botMsgId - 1
                /\ messages'[n + 2].role = MODEL
                /\ messages'[n + 2].id = streams'[i].botMsgId
                /\ messages'[n + 2].text = <<>>
                /\ messages'[n + 2].isStreaming = TRUE
                /\ streams'[i].status = "open"
                /\ streams'[i].chunks = <<>>]_vars
    /\ [][\A i \in DOMAIN streams' :
             (i \notin DOMAIN streams \/ streams'[i].chunks # streams[i].chunks)
                 => (i \in DOMAIN streams => streams[i].status = "open")
                    /\ (i \notin DOMAIN streams => streams'[i].chunks = <<>>)]_vars
    /\ [](\A i \in DOMAIN streams : \A L \in Lists : \A p \in DOMAIN L :
             /\ L[p].id = streams[i].botMsgId =>
                   p > 1 /\ L[p - 1].id = streams[i].botMsgId - 1 /\ L[p - 1].role = USER
             /\ L[p].id = streams[i].botMsgId - 1 =>
                   p < Len(L) /\ L[p + 1].id = streams[i].botMsgId)

\* C28 witness: a second send in a session has just started its call; the
\* displayed list ends with its user message and its empty placeholder
C28_Witness ==
    /\ Len(streams) = 2
    /\ streams[2].status = "open"
    /\ streams[2].chunks = <<>>
    /\ Ids(messages) = <<1, 2, 3, 4>>
    /\ messages[3].role = USER
    /\ messages[4].text = <<>>
    /\ messages[4].isStreaming = TRUE

\* The messages with text or attachments, in order
WithContent(list) ==
    SelectSeq(list, LAMBDA msg : msg.text # <<>> \/ Len(msg.attachments) > 0)

\* The text of a turn of the multimodal request (<<>> when it has no text
\* part) and the attachments of its inlineData parts, in order
TurnText(parts) ==
    IF Len(parts) > 0 /\ "text" \in DOMAIN parts[1] THEN parts[1].text ELSE <<>>
TurnData(parts) ==
    LET data == SelectSeq(parts, LAMBDA part : "inlineData" \in DOMAIN part)
    IN [k \in DOMAIN data |-> data[k].inlineData]

\* C29: the request of a send, for either driver, with search on and deep
\* think off or the reverse (the turns do not depend on the options).
\* In the step that makes the send the call is given the list displayed when
\* the send was made followed by the new user message, and never the
\* placeholder of that send.  The past
\* turns of the request are those displayed messages, in order, with their
\* roles and texts (and, for the multimodal driver, their attachments, the
\* messages with neither text nor attachments being left out); the new user
\* turn comes once, as the last turn of the gpt request and as the message
\* sent on the multimodal chat.
C29_RequestTurns ==
    [][Len(streams') = Len(streams) + 1 =>
          LET sent == streams'[Len(streams')]
              history == sent.history
              past == SubSeq(history, 1, Len(history) - 1)
              userMsg == history[Len(history)]
              shown == WithContent(past)
          IN /\ past = messages
             /\ userMsg.id = sent.botMsgId - 1
             /\ userMsg.role = USER
             /\ userMsg.text = sent.newMessage
             /\ \A k \in DOMAIN history : history[k].id # sent.botMsgId
             /\ \A useSearch \in BOOLEAN, useDeepThink \in BOOLEAN :
                   useDeepThink # useSearch =>
                   LET gpt == streamChatRequest(history, sent.newMessage,
                                  useSearch, useDeepThink, GPT, 0).messages
                       gemini == streamChatRequest(history, sent.newMessage,
                                     useSearch, useDeepThink, GEMINI, 0)
                   IN /\ Len(gpt) = Len(past) + 2
                      /\ gpt[1].role = "system"
                      /\ \A k \in DOMAIN past :
                            /\ gpt[k + 1].content = past[k].text
                            /\ gpt[k + 1].role = IF past[k].role = USER
                                                 THEN "user" ELSE "assistant"
                      /\ gpt[Len(gpt)] = [role |-> "user", content |-> userMsg.text]
                      /\ Len(gemini.history) = Len(shown)
                      /\ \A k \in DOMAIN shown :
                            /\ gemini.history[k].role = IF shown[k].role = USER
                                                        THEN "user" ELSE "model"
                            /\ TurnText(gemini.history[k].parts) = shown[k].text
                            /\ TurnData(gemini.history[k].parts) = shown[k].attachments
                      /\ TurnText(gemini.message) =
                            (IF userMsg.text = <<>> /\ userMsg.attachments = <<>>
                             THEN <<" ">> ELSE userMsg.text)
                      /\ TurnData(gemini.message) = userMsg.attachments]_vars

\* C29 witness: a second send in a session whose first answer ended empty:
\* the call is given the first user message, the empty model message and the
\* new user message
C29_Witness ==
    /\ Len(streams) = 2
    /\ Ids(streams[2].history) = <<1, 2, 3>>
    /\ streams[2].history[1].attachments # <<>>
    /\ streams[2].history[2].text = <<>>
    /\ streams[2].history[3].text = QUESTION
    /\ streams[2].status = "open"

\* C31: each send causes exactly one provider call, on the one driver the
\* provider key selects.  A step makes a call exactly when it appends a new
\* user message, and then it makes one; the request of that call is the gpt
\* request when the key is gpt and the multimodal request otherwise; a call
\* that has returned or thrown is never changed or made again (no retry);
\* and no list holds two model messages for one user message.
C31_OneCallPerSend ==
    /\ [][LET sent == \E p \in DOMAIN messages' :
                         /\ messages'[p].role = USER
                         /\ messages'[p].id > 2 * Len(streams)
          IN /\ Len(streams') = Len(streams) + (IF sent THEN 1 ELSE 0)
             /\ \A i \in DOMAIN streams :
                   /\ streams'[i].botMsgId = streams[i].botMsgId
                   /\ streams[i].status # "open" => streams'[i] = streams[i]
             /\ sent =>
                   LET call1 == streams'[Len(streams')]
                       gpt == streamChatRequest(call1.history, call1.newMessage,
                                                TRUE, TRUE, GPT, 0)
                       gemini == streamChatRequest(call1.history, call1.newMessage,
                                                   TRUE, TRUE, GEMINI, 0)
                   IN /\ call1.status = "open"
                      /\ gpt.model = "openai"
                      /\ "messages" \in DOMAIN gpt
                      /\ "history" \notin DOMAIN gpt
                      /\ gemini.model = "gemini-2.5-flash"
                      /\ "history" \in DOMAIN gemini
                      /\ "messages" \notin DOMAIN gemini]_vars
    /\ [](/\ \A i, j \in DOMAIN streams :
                i # j => streams[i].botMsgId # streams[j].botMsgId
          /\ \A L \in Lists : \A p \in DOMAIN L :
                L[p].role = MODEL => p > 1 /\ L[p - 1].role = USER)

\* C31 witness: the call of a send failed and the user sent again: two calls
\* for two user messages, the first failed, each with its one model message
C31_Witness ==
    /\ Len(streams) = 2
    /\ streams[1].status = "failed"
    /\ streams[2].status = "open"
    /\ Ids(messages) = <<1, 2, 3, 4>>
    /\ messages[2].text = APOLOGY

\* C34: whenever the displayed list holds messages, and so after every send,
\* there is a current session and it is one of the sessions of the list; a
\* send made with no current session puts a new session at the head of the
\* list, titled with the first 30 characters of the text ('New Chat' when the
\* text is empty), makes it current and gives it the messages of the send.
C34_SendHasSession ==
    /\ [](messages # <<>> =>
             /\ currentSessionId # NULL
             /\ \E j \in DOMAIN sessions : sessions[j].id = currentSessionId)
    /\ [][Len(streams') = Len(streams) + 1 =>
             /\ messages' # <<>>
             /\ currentSessionId # NULL => currentSessionId' = currentSessionId
             /\ currentSessionId = NULL =>
                   /\ Len(sessions') = Len(sessions) + 1
                   /\ \A j \in DOMAIN sessions : sessions[j].id # sessions'[1].id
                   /\ currentSessionId' = sessions'[1].id
                   /\ sessions'[1].messages = messages'
                   /\ sessions'[1].title =
                         (IF streams'[Len(streams')].newMessage = <<>> THEN NEW_CHAT
                          ELSE SubSeq(streams'[Len(streams')].newMessage, 1,
                                      Min(30, Len(streams'[Len(streams')].newMessage))))]_vars

\* C34 witness: after a delete-all there was no session; a send with a text
\* of more than 30 characters has made one, titled with its first 30
\* characters
C34_Witness ==
    /\ Len(streams) = 2
    /\ Len(sessions) = 1
    /\ currentSessionId = sessions[1].id
    /\ Ids(messages) = <<3, 4>>
    /\ Len(sessions[1].title) = 30
    /\ sessions[1].messages = messages

\* C38: a send that set isLoading is followed, once its provider call has
\* returned or thrown, by a state with isLoading false, whatever session
\* switch, new chat or delete-all happened meanwhile: the step in which a
\* call terminates leaves isLoading false, and a submit with something to
\* send is only ever stopped while a call is in flight.
C38_InputReleased ==
    /\ isLoading ~> ~isLoading
    /\ [][\A i \in DOMAIN streams :
             (streams[i].status = "open" /\ streams'[i].status # "open")
                => ~isLoading']_vars
    /\ [](lastSubmit = "disabled" => isLoading /\ InFlight # {})

\* C38 witness: the user opened a new chat while the first call was in
\* flight; the call completed, and a second send was made in the new session
C38_Witness ==
    /\ Len(streams) = 2
    /\ streams[1].status = "done"
    /\ streams[2].status = "open"
    /\ streams[2].sessionId # streams[1].sessionId
    /\ Len(sessions) = 2
    /\ isLoading

\* C39: once a confirmed delete-all has emptied the history while a call is
\* in flight, the events of that call change nothing of it: a chunk, a
\* completion or a failure that runs while there is no session, no current
\* session and no displayed message leaves the session list and the displayed
\* list empty, the current session unset and the stored blob as it is; and a
\* message of a call whose session is no longer in the list is held nowhere.
C39_NoResurrection ==
    /\ [][(Len(streams') = Len(streams) /\ streams' # streams /\ Emptied) =>
             /\ sessions' = <<>>
             /\ messages' = <<>>
             /\ currentSessionId' = NULL
             /\ stored' = stored]_vars
    /\ [](\A i \in DOMAIN streams :
             (\A j \in DOMAIN sessions : sessions[j].id # streams[i].sessionId)
                => Copies(streams[i].botMsgId) = {})

\* C39 witness: the history was deleted while the call was in flight; chunks
\* arrived and the call failed afterwards, and the history is still empty
C39_Witness ==
    /\ Emptied
    /\ stored = Stringify(<<>>)
    /\ Len(streams) = 1
    /\ streams[1].late
    /\ streams[1].status = "failed"
    /\ streams[1].chunks # <<>>
    /\ ~isLoading

----------------------------------------------------------------------------
(* Claims about the start and the persistence (StartSpec) *)

\* The items that cannot be read as a list of sessions
Malformed == {"invalid", "null", "object"}

\* C23: when the stored item is malformed (it cannot be read as a list of
\* sessions), the mount catches the error and ends with App mounted, the
\* sessions state an empty list, no current session and no displayed
\* message, and with the input able to start a send.
C23_MalformedBlobIgnored ==
    (boot.phase # "unmounted" /\ boot.item \in Malformed /\ steps = 0) =>
        /\ boot.phase = "mounted"
        /\ boot.held = "array"
        /\ sessions = <<>>
        /\ currentSessionId = NULL
        /\ messages = <<>>
        /\ CanSubmit(QUESTION, <<>>)

\* C24: the stored item is read exactly once, at the mount; every step of the
\* running application that changes the sessions state rewrites the item as
\* the serialization of the whole new list; so whenever the effects have run
\* the item is the serialization of the sessions state, also after a start
\* with saved sessions.
C24_StoredFollowsSessions ==
    /\ [](boot.phase = "mounted" => (stored = Stringify(sessions) /\ boot.reads = 1))
    /\ [][boot.phase = "mounted" =>
             /\ boot'.reads = boot.reads
             /\ sessions' # sessions => stored' = Stringify(sessions')]_vars

\* C24 witness: the application started with two saved sessions, the user
\* sent a message in the newest one and a chunk arrived; the item is the
\* list of both sessions, the new messages included
C24_Witness ==
    /\ boot.phase = "mounted"
    /\ boot.item = "array"
    /\ Len(sessions) = 2
    /\ \E i \in DOMAIN streams : streams[i].chunks # <<>>
    /\ Ids(sessions[1].messages) = <<1, 2>>
    /\ sessions[1].messages[2].text # <<>>
    /\ stored.list = sessions

----------------------------------------------------------------------------
(* Claims about the parsing (ParserSpec) *)

\* t holds an open marker and, after it, a close marker
HasPair(t) ==
    \E i \in 1..Len(t) :
        /\ IsAt(t, OPEN, i)
        /\ \E j \in (i + Len(OPEN))..Len(t) : IsAt(t, CLOSE, j)

\* C5: a model buffer that holds a complete <think>...</think> pair is classified
\* with isThinkingProcess false, the thought being the text between the first
\* open marker and the first close marker after it, and the answer being the
\* buffer without that span, trimmed; <think>hello</think>world gives the
\* thought hello and the answer world.
C5_DelimiterCompleteness ==
    /\ (message.role = MODEL /\ HasPair(message.text)) =>
          LET t == message.text
              i == CHOOSE x \in 1..Len(t) :
                     IsAt(t, OPEN, x) /\ \A y \in 1..(x - 1) : ~IsAt(t, OPEN, y)
              j == CHOOSE x \in (i + 7)..Len(t) :
                     IsAt(t, CLOSE, x) /\ \A y \in (i + 7)..(x - 1) : ~IsAt(t, CLOSE, y)
          IN /\ isThinkingProcess = FALSE
             /\ thoughtContent = SubSeq(t, i + 7, j - 1)
             /\ finalContent = Trim(SubSeq(t, 1, i - 1) \o SubSeq(t, j + 8, Len(t)))
    /\ (message.role = MODEL /\ message.text = EXAMPLE) =>
          /\ isThinkingProcess = FALSE
          /\ thoughtContent = <<"h","e","l","l","o">>
          /\ finalContent = <<"w","o","r","l","d">>

\* C5 witness: a buffer built from chunks holds a pair, with text around it
C5_Witness ==
    /\ message.role = MODEL
    /\ lastOp = "chunk"
    /\ message.text # EXAMPLE
    /\ HasPair(message.text)
    /\ thoughtContent # <<>>
    /\ finalContent # <<>>

\* The buffers C6 is about: after leading white space, a non-empty strict prefix
\* of the open marker, or the open marker and text with no close marker
MarkerArriving(p) ==
    LET c == TrimStart(p)
    IN \/ c # <<>> /\ c # OPEN /\ IsPrefix(c, OPEN)
       \/ StartsWith(c, OPEN) /\ ~Contains(p, CLOSE)

\* C6: every state through which a streaming model buffer passes (every prefix
\* of the buffer, whatever the chunks were) that is a part of the open marker,
\* or the open marker with thought text and no close marker, is classified
\* inside-thought with an empty answer.
C6_SplitMarker ==
    message.role = MODEL =>
        \A k \in 1..Len(message.text) :
            LET p == SubSeq(message.text, 1, k)
                c == Classify([message EXCEPT !.text = p, !.isStreaming = TRUE])
            IN MarkerArriving(p) =>
                  /\ c.isThinkingProcess
                  /\ c.finalContent = <<>>
                  /\ ~Contains(c.finalContent, <<"<">>)

\* C6 witness: the streaming buffer is white space and the first part of the marker
C6_Witness ==
    /\ message.role = MODEL
    /\ message.isStreaming
    /\ lastOp = "chunk"
    /\ message.text = <<" ","<","t","h","i">>
    /\ isThinkingProcess
    /\ finalContent = <<>>

\* C7: when a buffer B is classified with a settled thought T (not
\* inside-thought), the thought of every extension of B starts with T: stated
\* of the current buffer as the extension and each of its prefixes as B, while
\* the message streams and after it stopped.
C7_ThoughtMonotone ==
    \A k \in 0..Len(message.text), s \in {TRUE, message.isStreaming} :
        LET c == Classify([message EXCEPT !.text = SubSeq(message.text, 1, k),
                                          !.isStreaming = s])
        IN ~c.isThinkingProcess => IsPrefix(c.thoughtContent, thoughtContent)

\* C7 witness: the thought settled and the buffer has grown since
C7_Witness ==
    /\ message.role = MODEL
    /\ lastOp = "chunk"
    /\ thoughtContent # <<>>
    /\ ~isThinkingProcess
    /\ \E k \in 1..(Len(message.text) - 1) :
          LET c == Classify([message EXCEPT !.text = SubSeq(message.text, 1, k)])
          IN ~c.isThinkingProcess /\ c.thoughtContent = thoughtContent

----------------------------------------------------------------------------
(* Claim about the pending indicator (ParserSpec) *)

PartOfMarker(t) == TrimStart(t) # <<>> /\ IsPrefix(TrimStart(t), OPEN)

\* C27: a user message is classified with an empty thought, not inside a
\* thought, and the whole text as the answer, markers included.  A model
\* buffer that holds no complete pair, does not start (after leading white
\* space) with the open marker and, while streaming, is not a part of the
\* open marker, is classified the same way: empty thought, not inside a
\* thought, the answer being the whole buffer, unmodified.
C27_PlainTextUntouched ==
    LET plain == [thoughtContent |-> <<>>, finalContent |-> message.text,
                  isThinkingProcess |-> FALSE]
    IN /\ message.role = USER => parsed = plain
       /\ (/\ message.role = MODEL
           /\ ~HasPair(message.text)
           /\ ~StartsWith(TrimStart(message.text), OPEN)
           /\ ~(message.isStreaming = TRUE /\ PartOfMarker(message.text)))
              => parsed = plain

\* C27 witness: a streaming model buffer that begins with white space and
\* text and then holds an open marker; it is the answer as it stands
C27_Witness ==
    /\ message.role = MODEL
    /\ message.isStreaming = TRUE
    /\ message.text = <<" ", "a">> \o OPEN
    /\ parsed.finalContent = <<" ", "a">> \o OPEN
    /\ parsed.thoughtContent = <<>>
    /\ ~parsed.isThinkingProcess

----------------------------------------------------------------------------
(* Claims about the typewriter effect (ViewSpec, FairViewSpec) *)

\* C8: the visible text is never longer than the answer segment, each tick
\* makes it strictly longer (prevLen is its length before the step), and
\* whenever it is shorter than the answer it reaches the length of the answer.
C8_RevealConvergence ==
    /\ [](/\ Len(displayedText) <= Len(finalContent)
          /\ lastOp = "tick" => prevLen < Len(displayedText))
    /\ (Len(displayedText) < Len(finalContent))
          ~> (Len(displayedText) = Len(finalContent))

\* C8 witness: the answer is fixed (the stream has ended) and a tick has made
\* the visible text as long as the answer
C8_Witness ==
    /\ message.role = MODEL
    /\ ~message.isStreaming
    /\ lastOp = "tick"
    /\ prevLen < Len(displayedText)
    /\ Len(displayedText) = Len(finalContent)
    /\ ~interval.active

\* C9: once the stream has ended and the pacer is at rest (no timer is set, so
\* nothing changes any more), the visible text is the final answer segment,
\* character for character.
C9_FinalRevealExact ==
    (message.role = MODEL /\ ~message.isStreaming /\ ~interval.active)
        => displayedText = finalContent

\* C10: the visible text is never longer than the answer segment, and its
\* length decreases (it is below prevLen, its length before the step) only in
\* a step after which the answer segment is shorter than the visible text was.
C10_NoOvershootNoRegress ==
    /\ Len(displayedText) <= Len(finalContent)
    /\ Len(displayedText) < prevLen => Len(finalContent) < prevLen

\* C10 witness: a chunk made the answer shorter than the visible text, which
\* was cut back to it
C10_Witness ==
    /\ message.role = MODEL
    /\ lastOp = "chunk"
    /\ Len(displayedText) < prevLen
    /\ displayedText # <<>>
    /\ displayedText = finalContent

\* C32: after the effects of a render have run, the pacing timer of a model
\* message is set exactly when its visible text is shorter than its answer;
\* when the visible length has reached the answer length no timer is set
\* (and none is ever set for a user message), and the timer that is set
\* paces towards the current answer.
C32_TimerOnlyWhileBehind ==
    /\ message.role = MODEL =>
          (interval.active <=> Len(displayedText) < Len(finalContent))
    /\ message.role = USER => ~interval.active
    /\ interval.active => interval.finalContent = finalContent

\* C32 witness: a tick has just brought the visible text of a model message
\* to the length of its answer, and the timer is no longer set
C32_Witness ==
    /\ message.role = MODEL
    /\ lastOp = "tick"
    /\ prevLen < Len(displayedText)
    /\ displayedText = finalContent
    /\ ~interval.active

\* C33: once the view of a message is no longer displayed its pacing timer is
\* cancelled: in every state after the unmount no timer of the view is set,
\* and no step follows the unmount, so that no tick of the removed view fires
\* and nothing the view held changes.
C33_TimerTornDown ==
    /\ [](lastOp = "unmount" => ~interval.active)
    /\ [][lastOp = "unmount" =>
             /\ lastOp' = "unmount"
             /\ UNCHANGED <<message, parsed, displayedText, interval>>]_vars

\* C33 witness: the view of a model message was removed while its visible
\* text was still behind its answer, that is while its timer was set
C33_Witness ==
    /\ lastOp = "unmount"
    /\ message.role = MODEL
    /\ displayedText # <<>>
    /\ Len(displayedText) < Len(finalContent)
    /\ ~interval.active

\* C35: the visible text of a model message is a prefix, character for
\* character, of the answer segment of the message, in every state: also in
\* the state right after a chunk, the completion or the failure changed the
\* answer segment.
C35_VisibleIsPrefix ==
    message.role = MODEL => IsPrefix(displayedText, finalContent)

----------------------------------------------------------------------------
(* Claims about the provider drivers (DriverSpec) *)

\* C13: two calls of the gpt driver that differ only in useSearch build the
\* same request (the random seed apart), forward the same chunks, none with
\* metadata, and end the same way.
C13_SearchFlagIgnored ==
    call.provider = GPT =>
        /\ twin.useSearch = ~call.useSearch
        /\ [call.request EXCEPT !.seed = 0] = [twin.request EXCEPT !.seed = 0]
        /\ call.forwarded = twin.forwarded
        /\ \A k \in DOMAIN call.forwarded : call.forwarded[k].metadata = NoMeta
        /\ call.status = twin.status
        /\ call.returned = twin.returned
        /\ call.botMsg = twin.botMsg

\* C13 witness: a gpt call with useSearch and useDeepThink and a history of
\* three messages has returned after two chunks
C13_Witness ==
    /\ call.provider = GPT
    /\ call.useSearch
    /\ call.useDeepThink
    /\ Len(call.history) = 3
    /\ call.status = "returned"
    /\ Len(call.forwarded) = 2
    /\ call.returned # <<>>

Sources(metadata) == IF metadata = NoMeta THEN {} ELSE {metadata}

\* C15: every grounding source delivered by a chunk of the stream is still in
\* the grounding metadata of the message after all later chunks.
C15_MetadataMerged ==
    call.status # "none" =>
        \A k \in DOMAIN call.forwarded :
            Sources(call.forwarded[k].metadata)
                \subseteq Sources(call.botMsg.groundingMetadata)

\* C16: for both drivers, the text a successful call returns is the
\* concatenation, in order, of the texts the driver passed to onChunk during
\* the call (and fullText is that concatenation while the call reads).
C16_ReturnedTextIsConcatenation ==
    call.status \in {"reading", "returned"} =>
        LET forwardedText ==
                Flatten([k \in DOMAIN call.forwarded |-> call.forwarded[k].text])
        IN /\ call.fullText = forwardedText
           /\ call.status = "returned" => call.returned = forwardedText

\* C16 witness: a gemini call has returned after two chunks with text
C16_Witness ==
    /\ call.provider = GEMINI
    /\ call.status = "returned"
    /\ Len(call.forwarded) = 2
    /\ call.forwarded[1].text # <<>>
    /\ call.forwarded[2].text # <<>>
    /\ call.returned = call.forwarded[1].text \o call.forwarded[2].text

\* C17: when the request meets a transport error (the network fails, the
\* response is not OK, or the response has no body) the call throws, the
\* model message gets the apology and isStreaming false, and nothing of the
\* response body is passed on as answer text.
C17_TransportErrorSurfaced ==
    (call.status \in {"reading", "returned", "thrown"}
        /\ call.response \in {"network", "notOk", "noBody"}) =>
            /\ call.status = "thrown"
            /\ call.forwarded = <<>>
            /\ call.botMsg.text = APOLOGY
            /\ call.botMsg.isStreaming = FALSE

\* The system instruction of a request: config.systemInstruction of the
\* multimodal request, the content of the system message of the gpt request
InstructionOf(c) ==
    IF c.provider = GPT THEN c.request.messages[1].content
    ELSE c.request.systemInstruction

\* C30: for every call, the system instruction begins with the persona text;
\* it holds the chain-of-thought directive exactly when useDeepThink is set
\* and the search directive exactly when useSearch is set and the provider is
\* the multimodal one; the multimodal request enables the search tool exactly
\* when useSearch is set and a thinking budget exactly when useDeepThink is.
C30_InstructionAndTools ==
    \A c \in {call, twin} :
        LET instruction == InstructionOf(c)
            texts == {instruction[k] : k \in DOMAIN instruction}
        IN /\ instruction[1] = "BASE_INSTRUCTION"
           /\ "FEW_SHOT_COT" \in texts <=> c.useDeepThink
           /\ "GOOGLE_SEARCH" \in texts <=> (c.useSearch /\ c.provider = GEMINI)
           /\ c.provider = GEMINI =>
                 /\ c.request.tools = <<"googleSearch">> <=> c.useSearch
                 /\ c.request.tools = <<>> <=> ~c.useSearch
                 /\ c.request.thinkingBudget > 0 <=> c.useDeepThink

\* C30 witness: a multimodal call with search and deep think, whose request
\* was sent and is being answered, and its twin without search
C30_Witness ==
    /\ call.status = "reading"
    /\ call.provider = GEMINI
    /\ call.useSearch /\ call.useDeepThink
    /\ InstructionOf(call) = <<"BASE_INSTRUCTION", "FEW_SHOT_COT", "GOOGLE_SEARCH">>
    /\ call.request.tools # <<>>
    /\ InstructionOf(twin) = <<"BASE_INSTRUCTION", "FEW_SHOT_COT">>

----------------------------------------------------------------------------
(* Claims about the attachments (FileSpec) *)

\* The names of the attachments of a list, in order
Names(atts) == [p \in DOMAIN atts |-> atts[p].name]

\* The files of a list that can be read, in order
Readable(files) == SelectSeq(files, LAMBDA file : file.content = "data")

\* C26: in a selection of several files a file that fails does not end the
\* selection.  The loop goes through the files one by one to the last; at
\* every point the attachments built so far are one per readable file among
\* the files already gone through, in the order of the selection, with
\* different ids, and one alert was shown per file whose conversion threw;
\* after the last file exactly these attachments are appended to the
\* attachments state.
C26_BatchSurvivesFailure ==
    /\ [](/\ \A b \in DOMAIN inputArea.batches :
                LET batch == inputArea.batches[b]
                    gone == SubSeq(batch.files, 1, batch.pos - 1)
                IN /\ batch.pos <= Len(batch.files) + 1
                   /\ Names(batch.newAttachments) = Names(Readable(gone))
                   /\ \A p, q \in DOMAIN batch.newAttachments :
                         p # q => batch.newAttachments[p].id # batch.newAttachments[q].id
          /\ inputArea.alerts =
                Cardinality({ <<b, k>> \in (DOMAIN inputArea.batches) \X (1..MaxFiles) :
                                 /\ k < inputArea.batches[b].pos
                                 /\ inputArea.batches[b].files[k].content = "corrupt" }))
    /\ [][\A b \in DOMAIN inputArea.batches :
             LET old == inputArea.batches[b]
                 new == inputArea'.batches[b]
             IN /\ new.files = old.files
                /\ new.pos \in {old.pos, old.pos + 1}
                /\ (old.pos = Len(old.files) /\ new.pos = old.pos + 1) =>
                       inputArea'.attachments
                           = inputArea.attachments \o new.newAttachments]_vars

\* C26 witness: a selection of two files, the first of which could not be
\* converted (one alert), is finished, and the attachments state holds the
\* attachment of the second file
C26_Witness ==
    \E b \in DOMAIN inputArea.batches :
        LET batch == inputArea.batches[b]
        IN /\ Len(batch.files) = 2
           /\ batch.pos = 3
           /\ batch.files[1].content = "corrupt"
           /\ batch.files[2].content = "data"
           /\ inputArea.alerts = 1
           /\ Names(inputArea.attachments) = <<batch.files[2].name>>

====
